---------------------------- MODULE Spec2Model ----------------------------
(***************************************************************************)
(* Model of the NetSuite synchronisation scripts (omtis-scripts).          *)
(*                                                                         *)
(* The specifications share the variables below:                           *)
(*   Spec       the outbound request layer: the two Bottleneck limiters,   *)
(*              netsuiteRequest, makeRequestWithRetry and the direct axios *)
(*              calls of NetSuiteService, with concurrent callers;         *)
(*   SpecPage   fetchAllInventoryItems, the full-sweep paginator;          *)
(*   SpecPageFair  the same with any number of failed pages, always resumed;*)
(*   SpecStore  the writes of every operation to the InventoryItem and     *)
(*              SalesOrder collections, with the clock of the timestamps;  *)
(*   SpecSync   the orchestrator loops (syncInventory, syncAllInventory,   *)
(*              syncInventoryFromSalesOrders, syncSalesOrders);            *)
(*   SpecSyncFair  the same, with the continuations of a run resumed;      *)
(*   SpecPrice  fetchPriceInformation of the three scripts;                *)
(*   SpecFetch  one fetch of a full record: base, prices, locations;       *)
(*   SpecMove   the movement pass, batch by batch;                         *)
(*   SpecMoveFair  the same, its loop always resumed;                       *)
(*   SpecBatch  the loops that await their fetches, await by await;        *)
(*   SpecFn     one application of a pure helper to a drawn argument.      *)
(* Each specification leaves the variables of the others unchanged.        *)
(***************************************************************************)
EXTENDS Integers, Sequences, FiniteSets, TLC

\* ------------------------------------------------------------------------
\* Bounds of the model
\* ------------------------------------------------------------------------
\* number of caller slots that may have a request outstanding at once
NumCallers == 2
\* largest number of items the upstream catalogue holds
MaxCatalog == 4
\* largest number of listing requests of one sweep that fail
MaxPageErrors == 2
\* latest value of the clock
MaxClock == 1
\* largest number of collection writes in one behaviour of SpecStore
MaxWrites == 3
\* longest run of failed listing requests that is followed to the ceiling
MaxSkipRun == 102
\* largest number of sync runs in one behaviour of SpecSync
MaxRuns == 3
\* longest price list the upstream returns for an item
MaxLevels == 3

\* ------------------------------------------------------------------------
\* Program constants
\* ------------------------------------------------------------------------
\* netsuiteRequest(config, retries = 3)
DefaultRetries == 3
\* Bottleneck({ maxConcurrent: 1, ... })
MaxConcurrent == 1
\* RATE_LIMIT_CONFIG.maxRetries
RateLimitMaxRetries == 3
\* RATE_LIMIT_CONFIG.batchSize
RateLimitBatchSize == 2
\* RATE_LIMIT_CONFIG.baseDelay, RATE_LIMIT_CONFIG.maxDelay
RateLimitBaseDelay == 2000
RateLimitMaxDelay == 10000
\* batchGetItems(itemIds, batchSize = 5)
ServiceBatchSize == 5
\* const wait = (4 - retries) * 5000
BackoffStep == 5000
\* Math.min(batchSize, 1000): the upstream's hard cap on a page
NetSuiteMaxLimit == 1000
\* (totalResults || 100000)
SkipCeiling == 100000
\* null (maxItems = null, totalResults = null)
NoValue == -1
\* const MAX_LOCATIONS = 50 (single-item script)
MaxLocationsCap == 50

\* ------------------------------------------------------------------------
\* Request layer: state
\* ------------------------------------------------------------------------
VARIABLES
    callSt,     \* per caller: "idle", "queued", "inflight", "backoff", "ok", "failed"
    callVia,    \* per caller: the client function that carries the request
    retryArg,   \* per caller: netsuiteRequest's `retries` / makeRequestWithRetry's `retryCount`
    attempts,   \* per caller: number of axios(...) invocations made for the request
    resps,      \* per caller: the statuses the upstream answered, in order
    waits,      \* per caller: the backoff waits (ms) slept, in order
    queue,      \* per limiter: FIFO of callers whose job is scheduled but not started
    running     \* per limiter: number of jobs executing

clientVars == <<callSt, callVia, retryArg, attempts, resps, waits, queue, running>>

\* ------------------------------------------------------------------------
\* Paginator (fetchAllInventoryItems): state
\* ------------------------------------------------------------------------
VARIABLES
    pgPc,          \* "loop" while the while-loop runs, "done" once the function returned
    batchSize,     \* options.batchSize
    maxItems,      \* options.maxItems (NoValue for null)
    catalog,       \* number of items the upstream holds (item i has id i)
    allItems,      \* the accumulated items
    pgHasMore,     \* hasMore
    offset,        \* offset
    totalResults,  \* totalResults (NoValue for null)
    batchNumber,   \* batchNumber
    requests,      \* the listing requests issued: [limit, offset], in order
    pages,         \* the item lists of the successful responses, in order
    pageMore,      \* the hasMore flags of the successful responses, in order
    pgErrors,      \* number of listing requests that threw
    pgResult       \* the returned list (<<>> until the function returns)

pageVars == <<pgPc, batchSize, maxItems, catalog, allItems, pgHasMore, offset,
              totalResults, batchNumber, requests, pages, pageMore, pgErrors,
              pgResult>>


\* ------------------------------------------------------------------------
\* Collections and clock: state
\* ------------------------------------------------------------------------
VARIABLES
    store,      \* the InventoryItem collection: a set of documents
    orders,     \* the SalesOrder collection: a set of documents
    now,        \* the clock that new Date() and the timestamps plugin read
    lastWrite,  \* SpecStore: the filter key and update of the latest write
    repeated,   \* SpecStore: the latest write had the key and update of the one before
    writes      \* SpecStore: number of findOneAndUpdate / updateOne calls executed

storeVars == <<store, orders, now, lastWrite, repeated, writes>>

\* ------------------------------------------------------------------------
\* Orchestrator (one run of a sync function): state
\* ------------------------------------------------------------------------
VARIABLES
    mode,                  \* the sync function that runs ("none" between runs)
    pc,                    \* "idle", "auth", "list", "loop", "done"
    cands,                 \* the candidate ids of the run, in processing order
    listed,                \* the listing step: whether the request was answered, the
                           \* items of the answer, and the limit of the run
    idx,                   \* number of candidates the for-loop has taken
    processedCount,        \* processedCount
    savedCount,            \* savedCount
    skippedInactiveCount,  \* skippedInactiveCount
    errors,                \* errors: the ids pushed, in order
    raised,                \* ids whose fetch, transform or upsert failed
    calls,                 \* upstream and store calls of the run, by kind
    report,                \* the object the function returned
    runs,                  \* number of runs started
    startStore,            \* the inventory collection when the run started
    last,                  \* the last iteration: id, fetched flag, outcome
    exhausted,             \* "probe", "fetch": steps whose request ran out of 429 retries
    logLines               \* failure lines appended to the log file of the run

runVars == <<mode, pc, cands, listed, idx, processedCount, savedCount,
             skippedInactiveCount, errors, raised, calls, report, runs,
             startStore, last, exhausted, logLines>>

\* ------------------------------------------------------------------------
\* Record fetcher (one call of fetchInventoryItemDetail, or of the fetches of
\* syncSingleItem): state
\* ------------------------------------------------------------------------
VARIABLES
    up,              \* what the upstream holds for the item (fixed during the call)
    fScript,         \* the script whose fetch functions run
    fPc,             \* "idle", "base", "priceList", "priceLoop", "locList", "locLoop", "done"
    fIdx,            \* number of entries the running loop has taken
    priceData,       \* price, currency, tradePrice, retailPrice
    hasTradePrice,   \* hasTradePrice
    hasRetailPrice,  \* hasRetailPrice
    fetchedLevels,   \* the price details fetched with data, in order
    locationsData,   \* locations / locationsData
    totalQuantity,   \* totalQuantity
    fCalls,          \* upstream calls of the fetch, by kind
    fFailures,       \* number of location detail requests that failed
    fFailed,         \* the kinds of request that failed during the fetch
    fNoAddress,      \* the locations whose address request failed
    fResult          \* "pending", "record", "null", "thrown"

fetchVars == <<up, fScript, fPc, fIdx, priceData, hasTradePrice, hasRetailPrice,
               fetchedLevels, locationsData, totalQuantity, fCalls, fFailures,
               fFailed, fNoAddress, fResult>>

\* ------------------------------------------------------------------------
\* Movement pass (POST /api/inventory/update-movement): state
\* ------------------------------------------------------------------------
VARIABLES
    mvPc,          \* "idle", "find", "query", "update", "done"
    mvBatchSize,   \* batchSize of the request
    mvMaxItems,    \* maxItems of the request (NoValue: null)
    mvTotal,       \* totalCount
    mvOffset,      \* offset
    mvProcessed,   \* processedCount
    mvBatch,       \* itemIds: the internalIds of the batch
    mvResult,      \* movementData: the upstream rows, by item_id
    mvQueryOk,     \* fetchMovementDataForItems returned
    mvPending,     \* ids whose updateOne has not settled yet
    mvErrors,      \* ids whose updateOne threw
    mvBatchErrors, \* number of batches that ended in catch (batchError)
    mvAssigned     \* per stored id, the updateOne calls that set its movement

moveVars == <<mvPc, mvBatchSize, mvMaxItems, mvTotal, mvOffset, mvProcessed,
              mvBatch, mvResult, mvQueryOk, mvPending, mvErrors, mvBatchErrors,
              mvAssigned>>

\* One application of a pure helper of the scripts: the helper applied, its
\* argument, its result, and whether it has returned.
VARIABLES
    fnName,
    fnArg,
    fnOut,
    fnDone

fnVars == <<fnName, fnArg, fnOut, fnDone>>

\* A loop over a list of ids that awaits its fetches: batchGetItems and
\* batchGetItemsWithPrice of the service, and the per-record loops of
\* syncInventory and syncAllInventory, at the grain of their awaits.
VARIABLES
    bgPc,        \* "idle", "launch", "wait", "done"
    bgVariant,   \* the function running
    bgIds,       \* itemIds, or the candidates of the run
    bgSize,      \* batchSize
    bgI,         \* i: the positions before the current batch
    bgStage,     \* per position: "none", the await it is at, or how it ended
    bgStarted,   \* positions in the order their base fetch was issued
    bgWrites,    \* positions in the order their findOneAndUpdate was issued
    bgResults,   \* results (savedItems): the positions pushed, in order
    bgErrors     \* errors: the positions pushed, in order

batchVars == <<bgPc, bgVariant, bgIds, bgSize, bgI, bgStage, bgStarted, bgWrites,
               bgResults, bgErrors>>

vars == <<clientVars, pageVars, storeVars, runVars, fetchVars, moveVars, fnVars,
          batchVars>>


Callers == 1..NumCallers

\* The two Bottleneck instances of the code base.
Limiters == {"shared", "inventory"}

\* Client functions: netsuiteRequest of utils/netsuiteRequest.js ("shared"),
\* netsuiteRequest of the inventory sync script ("inventory"),
\* makeRequestWithRetry of the single-item script ("single") and the direct
\* axios calls of NetSuiteService ("service").
Clients == {"shared", "inventory", "single", "service"}

\* What the upstream can answer: 200, a rate-limit 429, another HTTP error
\* (500), or no HTTP response at all (0: a timeout or a transport error, for
\* which err.response is undefined).
Statuses == {200, 429, 500, 0}

\* The limiter a client function schedules its axios call on, "none" when it
\* calls axios directly.
LimiterOf(client) ==
    CASE client = "shared"    -> "shared"
      [] client = "inventory" -> "inventory"
      [] OTHER                -> "none"

\* Mutants of ShouldRetry: an off-by-one retry budget, and a retry on every
\* error status.
ShouldRetryOffByOne(status, retries) == status = 429 /\ retries >= 0
ShouldRetryAnyError(status, retries) == retries > 0

\* catch (err) { if (err.response?.status === 429 && retries > 0) ... }
ShouldRetry(status, retries) == status = 429 /\ retries > 0

\* catch (error) { if (error.response && error.response.status === 429
\*                     && retryCount < RATE_LIMIT_CONFIG.maxRetries) ... }
ShouldRetrySingle(status, retryCount) ==
    status = 429 /\ retryCount < RateLimitMaxRetries

\* Whether the client function retries the failed attempt.
Retries(client, status, arg) ==
    CASE client \in {"shared", "inventory"} -> ShouldRetry(status, arg)
      [] client = "single"                  -> ShouldRetrySingle(status, arg)
      [] OTHER                              -> FALSE

\* The same wait before every retry.
BackoffWaitFlat(retries) == BackoffStep

\* const wait = (4 - retries) * 5000;
BackoffWait(retries) == (4 - retries) * BackoffStep

RECURSIVE Pow2(_)
Pow2(n) == IF n <= 0 THEN 1 ELSE 2 * Pow2(n - 1)

Min(a, b) == IF a <= b THEN a ELSE b

\* Math.min(baseDelay * Math.pow(2, retryCount) + Math.random() * 1000, maxDelay)
\* with the random term given as jitter (0 <= jitter < 1000).
SingleBackoffWait(retryCount, jitter) ==
    Min(RateLimitBaseDelay * Pow2(retryCount) + jitter, RateLimitMaxDelay)

\* The values the jitter term is drawn from.
Jitters == {0, 999}

\* The argument of the recursive call: retries - 1, or retryCount + 1.
NextRetryArg(client, arg) ==
    IF client = "single" THEN arg + 1 ELSE arg - 1

InFlight == {c \in Callers : callSt[c] = "inflight"}

ClientInit ==
    /\ callSt   = [c \in Callers |-> "idle"]
    /\ callVia  = [c \in Callers |-> "none"]
    /\ retryArg = [c \in Callers |-> 0]
    /\ attempts = [c \in Callers |-> 0]
    /\ resps    = [c \in Callers |-> <<>>]
    /\ waits    = [c \in Callers |-> <<>>]
    /\ queue    = [l \in Limiters |-> <<>>]
    /\ running  = [l \in Limiters |-> 0]

\* ------------------------------------------------------------------------
\* Request layer: actions
\* ------------------------------------------------------------------------

\* A caller invokes netsuiteRequest(config): limiter.schedule(() => axios(..))
\* puts the job on the limiter's queue.
NetsuiteRequest(c, l) ==
    /\ callSt[c] = "idle"
    /\ callSt'   = [callSt EXCEPT ![c] = "queued"]
    /\ callVia'  = [callVia EXCEPT ![c] = l]
    /\ retryArg' = [retryArg EXCEPT ![c] = DefaultRetries]
    /\ queue'    = [queue EXCEPT ![l] = Append(@, c)]
    /\ UNCHANGED <<attempts, resps, waits, running>>
    /\ UNCHANGED <<pageVars, storeVars, runVars, fetchVars, moveVars, fnVars, batchVars>>

\* The limiter starts the job at the head of its queue when fewer than
\* maxConcurrent jobs are executing: the job calls axios.
LimiterDispatch(l) ==
    /\ queue[l] # <<>>
    /\ running[l] < MaxConcurrent
    /\ LET c == Head(queue[l]) IN
        /\ callSt'   = [callSt EXCEPT ![c] = "inflight"]
        /\ attempts' = [attempts EXCEPT ![c] = @ + 1]
    /\ queue'   = [queue EXCEPT ![l] = Tail(@)]
    /\ running' = [running EXCEPT ![l] = @ + 1]
    /\ UNCHANGED <<callVia, retryArg, resps, waits>>
    /\ UNCHANGED <<pageVars, storeVars, runVars, fetchVars, moveVars, fnVars, batchVars>>

\* fetchItemLocations of the single-item script maps a batch of at most
\* RATE_LIMIT_CONFIG.batchSize location entries to fetchLocationDetails and
\* awaits Promise.all: every makeRequestWithRetry of the batch calls axios at
\* once.  A batch of one is also the base, price and address fetch.
MakeRequestWithRetryBatch(S) ==
    /\ S # {}
    /\ Cardinality(S) <= RateLimitBatchSize
    /\ \A c \in S : callSt[c] = "idle"
    /\ callSt'   = [c \in Callers |-> IF c \in S THEN "inflight" ELSE callSt[c]]
    /\ callVia'  = [c \in Callers |-> IF c \in S THEN "single" ELSE callVia[c]]
    /\ retryArg' = [c \in Callers |-> IF c \in S THEN 0 ELSE retryArg[c]]
    /\ attempts' = [c \in Callers |-> IF c \in S THEN attempts[c] + 1 ELSE attempts[c]]
    /\ UNCHANGED <<resps, waits, queue, running>>
    /\ UNCHANGED <<pageVars, storeVars, runVars, fetchVars, moveVars, fnVars, batchVars>>

\* NetSuiteService.batchGetItems / batchGetItemsWithPrice map a batch of at
\* most batchSize ids to getInventoryItemById, which calls axios directly and
\* never retries.  A batch of one is also getAllInventoryItems.
ServiceAxiosBatch(S) ==
    /\ S # {}
    /\ Cardinality(S) <= ServiceBatchSize
    /\ \A c \in S : callSt[c] = "idle"
    /\ callSt'   = [c \in Callers |-> IF c \in S THEN "inflight" ELSE callSt[c]]
    /\ callVia'  = [c \in Callers |-> IF c \in S THEN "service" ELSE callVia[c]]
    /\ attempts' = [c \in Callers |-> IF c \in S THEN attempts[c] + 1 ELSE attempts[c]]
    /\ UNCHANGED <<retryArg, resps, waits, queue, running>>
    /\ UNCHANGED <<pageVars, storeVars, runVars, fetchVars, moveVars, fnVars, batchVars>>

\* The limiter's job slot is released when the axios promise settles.
Release(c) ==
    LET l == LimiterOf(callVia[c]) IN
    IF l = "none" THEN running
    ELSE [running EXCEPT ![l] = @ - 1]

\* The upstream answers 200: the request resolves with the response.
RespondOk(c) ==
    /\ callSt[c] = "inflight"
    /\ callSt'  = [callSt EXCEPT ![c] = "ok"]
    /\ resps'   = [resps EXCEPT ![c] = Append(@, 200)]
    /\ running' = Release(c)
    /\ UNCHANGED <<callVia, retryArg, attempts, waits, queue>>
    /\ UNCHANGED <<pageVars, storeVars, runVars, fetchVars, moveVars, fnVars, batchVars>>

\* The axios promise rejects with status s (0: no HTTP response).  The catch
\* block either sleeps the backoff wait and recurses, or rethrows.
RespondError(c, s) ==
    /\ callSt[c] = "inflight"
    /\ s # 200
    /\ resps'   = [resps EXCEPT ![c] = Append(@, s)]
    /\ running' = Release(c)
    /\ IF Retries(callVia[c], s, retryArg[c])
         THEN /\ callSt' = [callSt EXCEPT ![c] = "backoff"]
              /\ \E j \in Jitters :
                   waits' = [waits EXCEPT ![c] =
                              IF callVia[c] = "single"
                                THEN Append(@, SingleBackoffWait(retryArg[c], j))
                                ELSE Append(@, BackoffWait(retryArg[c]))]
         ELSE /\ callSt' = [callSt EXCEPT ![c] = "failed"]
              /\ waits'  = waits
    /\ UNCHANGED <<callVia, retryArg, attempts, queue>>
    /\ UNCHANGED <<pageVars, storeVars, runVars, fetchVars, moveVars, fnVars, batchVars>>

\* The backoff timer fires and the function calls itself with the next retry
\* argument: netsuiteRequest schedules a new job on its limiter,
\* makeRequestWithRetry calls axios again.
BackoffElapsed(c) ==
    /\ callSt[c] = "backoff"
    /\ retryArg' = [retryArg EXCEPT ![c] = NextRetryArg(callVia[c], @)]
    /\ IF LimiterOf(callVia[c]) = "none"
         THEN /\ callSt'   = [callSt EXCEPT ![c] = "inflight"]
              /\ attempts' = [attempts EXCEPT ![c] = @ + 1]
              /\ queue'    = queue
         ELSE /\ callSt'   = [callSt EXCEPT ![c] = "queued"]
              /\ attempts' = attempts
              /\ queue'    = [queue EXCEPT ![LimiterOf(callVia[c])] = Append(@, c)]
    /\ UNCHANGED <<callVia, resps, waits, running>>
    /\ UNCHANGED <<pageVars, storeVars, runVars, fetchVars, moveVars, fnVars, batchVars>>

\* ------------------------------------------------------------------------
\* Request layer: properties
\* ------------------------------------------------------------------------
Last(seq) == seq[Len(seq)]

All429(c) == \A i \in DOMAIN resps[c] : resps[c][i] = 429

\* The client functions that retry: both netsuiteRequest and makeRequestWithRetry.
RetryingClients == {"shared", "inventory", "single"}

\* C1: a request whose every attempt is answered 429 makes exactly 4 attempts
\* (the first plus 3 retries) and then fails: no request ever makes a 5th
\* attempt, after the 4th 429 the failure is surfaced, and before the 4th 429
\* the request has not given up.
C1_RetryBound ==
    \A c \in Callers :
        callVia[c] \in RetryingClients =>
            /\ attempts[c] <= DefaultRetries + 1
            /\ (All429(c) /\ Len(resps[c]) = DefaultRetries + 1) =>
                   (callSt[c] = "failed" /\ attempts[c] = DefaultRetries + 1)
            /\ (All429(c) /\ Len(resps[c]) < DefaultRetries + 1) =>
                   callSt[c] # "failed"

\* A netsuiteRequest call that was answered 429 four times and has failed.
C1_Witness ==
    \E c \in Callers :
        /\ callVia[c] \in {"shared", "inventory"}
        /\ resps[c] = <<429, 429, 429, 429>>
        /\ callSt[c] = "failed"
        /\ attempts[c] = 4

\* C2: every outbound call to the upstream goes through a limiter queue: no
\* call in flight was issued by calling axios directly.
C2_AllCallsThroughLimiter ==
    \A c \in InFlight : LimiterOf(callVia[c]) # "none"

\* C3: at every moment at most one outbound call to the upstream is in flight.
C3_AtMostOneInFlight == Cardinality(InFlight) <= 1

\* C8: an attempt that ends with an error other than 429 (another HTTP status,
\* or no response at all) ends the request at once: the request has failed,
\* no further attempt was made and no backoff wait followed that error, so
\* that a request whose first answer is such an error made exactly one attempt.
C8_NoRetryOnOtherErrors ==
    \A c \in Callers :
        (resps[c] # <<>> /\ Last(resps[c]) \notin {200, 429}) =>
            /\ callSt[c] = "failed"
            /\ attempts[c] = Len(resps[c])
            /\ Len(waits[c]) = Len(resps[c]) - 1

\* A netsuiteRequest call that timed out on its first attempt and failed after
\* that single attempt, without any wait.
C8_Witness ==
    \E c \in Callers :
        /\ callVia[c] \in {"shared", "inventory"}
        /\ resps[c] = <<0>>
        /\ callSt[c] = "failed"
        /\ attempts[c] = 1
        /\ waits[c] = <<>>

\* C26 (as stated): the wait before the k-th retry of a rate-limited call is
\* k times the base delay: 5000, 10000, 15000 ms, in netsuiteRequest and in
\* makeRequestWithRetry.
C26_BackoffLinearEverywhere ==
    \A c \in Callers :
        \A k \in 1..Len(waits[c]) : waits[c][k] = k * BackoffStep

\* C26 (amended): the wait before the k-th retry is strictly larger than the
\* wait before retry k-1 in both clients; it is k * 5000 ms in netsuiteRequest
\* and min(2000 * 2^(k-1) + jitter, 10000) ms, with 0 <= jitter < 1000, in
\* makeRequestWithRetry; no call waits more than three times.
C26_BackoffIncreases ==
    \A c \in Callers :
        /\ Len(waits[c]) <= 3
        /\ \A k \in 1..Len(waits[c]) :
              /\ k > 1 => waits[c][k] > waits[c][k - 1]
              /\ callVia[c] \in Limiters => waits[c][k] = k * BackoffStep
              /\ callVia[c] = "single" =>
                    /\ waits[c][k] >= Min(RateLimitBaseDelay * Pow2(k - 1), RateLimitMaxDelay)
                    /\ waits[c][k] <  RateLimitBaseDelay * Pow2(k - 1) + 1000
                    /\ waits[c][k] <= RateLimitMaxDelay

\* A netsuiteRequest call and a makeRequestWithRetry call that were both
\* rate limited four times: three waits each, then the failure.
C26_Witness ==
    \E c, d \in Callers :
        /\ callVia[c] \in Limiters /\ callSt[c] = "failed"
        /\ waits[c] = <<5000, 10000, 15000>>
        /\ callVia[d] = "single" /\ callSt[d] = "failed"
        /\ waits[d] = <<2999, 4000, 8999>>


\* The batch sizes, item caps and catalogue sizes the paginator is run with.
BatchSizes == {1, 2, 2000}
MaxItemsChoices == {NoValue, 1, 3}
CatalogSizes == 0..MaxCatalog

\* const limit = Math.min(batchSize, 1000);
PageLimit(bs) == Min(bs, NetSuiteMaxLimit)

\* Mutant of ItemsToFetch: every request asks for a whole page.
ItemsToFetchWholePage(limit, mx, have) == limit

\* const itemsToFetch = maxItems !== null
\*     ? Math.min(limit, maxItems - allItems.length) : limit;
ItemsToFetch(limit, mx, have) ==
    IF mx # NoValue THEN Min(limit, mx - have) ELSE limit

\* Mutant of AdvanceOffset: the offset advanced by the requested page width
\* instead of the number of items received.
AdvanceOffsetByLimit(off, limit, received) == off + limit

\* offset += items.length;
AdvanceOffset(off, limit, received) == off + received

\* Mutant of SkipPage: the offset left where it was after a failed page.
SkipPageStay(off, limit) == off

\* catch (error) { offset += limit; ... }
SkipPage(off, limit) == off + limit

\* (totalResults || 100000)
TotalOrDefault(total) ==
    IF total = NoValue \/ total = 0 THEN SkipCeiling ELSE total

\* Mutant of PastTotal: the catch block never ends the loop.
PastTotalNever(off, total) == FALSE

\* if (offset > (totalResults || 100000)) hasMore = false;
PastTotal(off, total) == off > TotalOrDefault(total)

\* The ids offset+1 .. offset+n of the catalogue.
Slice(off, n) == [i \in 1..n |-> off + i]

\* The upstream's answer to ?limit=L&offset=o: n items from position o on,
\* with hasMore set while items remain after them.  The upstream may return
\* fewer items than asked for, but returns at least one while items remain.
PageSizes(limit, off) ==
    IF off >= catalog \/ limit <= 0 THEN {0}
    ELSE 1..Min(limit, catalog - off)

PageInit ==
    /\ pgPc = "loop"
    /\ batchSize \in BatchSizes
    /\ maxItems \in MaxItemsChoices
    /\ catalog \in CatalogSizes
    /\ allItems = <<>>
    /\ pgHasMore = TRUE
    /\ offset = 0
    /\ totalResults = NoValue
    /\ batchNumber = 0
    /\ requests = <<>>
    /\ pages = <<>>
    /\ pageMore = <<>>
    /\ pgErrors = 0
    /\ pgResult = <<>>

\* The variables of the paginator at rest, for the other specifications.
PageIdle ==
    /\ pgPc = "idle"
    /\ batchSize = 1
    /\ maxItems = NoValue
    /\ catalog = 0
    /\ allItems = <<>>
    /\ pgHasMore = FALSE
    /\ offset = 0
    /\ totalResults = NoValue
    /\ batchNumber = 0
    /\ requests = <<>>
    /\ pages = <<>>
    /\ pageMore = <<>>
    /\ pgErrors = 0
    /\ pgResult = <<>>

\* ------------------------------------------------------------------------
\* Paginator: actions (one per way through the body of the while loop)
\* ------------------------------------------------------------------------

\* if (maxItems !== null && allItems.length >= maxItems) { slice; break; }
\* followed by the return of the function.
MaxItemsBreak ==
    /\ pgPc = "loop" /\ pgHasMore
    /\ maxItems # NoValue /\ Len(allItems) >= maxItems
    /\ allItems' = SubSeq(allItems, 1, maxItems)
    /\ pgResult' = SubSeq(allItems, 1, maxItems)
    /\ pgPc' = "done"
    /\ UNCHANGED <<batchSize, maxItems, catalog, pgHasMore, offset, totalResults,
                   batchNumber, requests, pages, pageMore, pgErrors>>
    /\ UNCHANGED <<clientVars, storeVars, runVars, fetchVars, moveVars, fnVars, batchVars>>

\* One iteration whose listing request succeeds with n items.
PageOk(n) ==
    /\ pgPc = "loop" /\ pgHasMore
    /\ ~(maxItems # NoValue /\ Len(allItems) >= maxItems)
    /\ LET limit == PageLimit(batchSize)
           want  == ItemsToFetch(limit, maxItems, Len(allItems))
           items == Slice(offset, n)
           more  == offset + n < catalog
       IN
        /\ n \in PageSizes(want, offset)
        /\ batchNumber' = batchNumber + 1
        /\ requests' = Append(requests, [limit |-> want, offset |-> offset])
        /\ allItems' = allItems \o items
        /\ pages' = Append(pages, items)
        /\ pageMore' = Append(pageMore, more)
        /\ totalResults' = IF totalResults = NoValue THEN catalog ELSE totalResults
        /\ pgHasMore' = more
        /\ offset' = AdvanceOffset(offset, limit, n)
    /\ UNCHANGED <<pgPc, batchSize, maxItems, catalog, pgErrors, pgResult>>
    /\ UNCHANGED <<clientVars, storeVars, runVars, fetchVars, moveVars, fnVars, batchVars>>

\* One iteration whose listing request throws (after netsuiteRequest gave up):
\* the catch block skips one page width and stops past the known total.
PageError ==
    /\ pgPc = "loop" /\ pgHasMore
    /\ ~(maxItems # NoValue /\ Len(allItems) >= maxItems)
    /\ pgErrors < MaxPageErrors
    /\ LET limit == PageLimit(batchSize)
           want  == ItemsToFetch(limit, maxItems, Len(allItems))
       IN
        /\ batchNumber' = batchNumber + 1
        /\ requests' = Append(requests, [limit |-> want, offset |-> offset])
        /\ offset' = SkipPage(offset, limit)
        /\ pgHasMore' = ~PastTotal(SkipPage(offset, limit), totalResults)
    /\ pgErrors' = pgErrors + 1
    /\ UNCHANGED <<pgPc, batchSize, maxItems, catalog, allItems, totalResults,
                   pages, pageMore, pgResult>>
    /\ UNCHANGED <<clientVars, storeVars, runVars, fetchVars, moveVars, fnVars, batchVars>>

\* The failures that are followed: those from which at most MaxSkipRun
\* failures in a row take the offset past the total, or past the ceiling.
SkipRunBounded(off, limit, total) ==
    TotalOrDefault(total) - off < MaxSkipRun * limit

\* The iteration of PageError, for any number of failures of a sweep.
PageErrorAgain ==
    /\ pgPc = "loop" /\ pgHasMore
    /\ ~(maxItems # NoValue /\ Len(allItems) >= maxItems)
    /\ SkipRunBounded(offset, PageLimit(batchSize), totalResults)
    /\ LET limit == PageLimit(batchSize)
           want  == ItemsToFetch(limit, maxItems, Len(allItems))
       IN
        /\ batchNumber' = batchNumber + 1
        /\ requests' = Append(requests, [limit |-> want, offset |-> offset])
        /\ offset' = SkipPage(offset, limit)
        /\ pgHasMore' = ~PastTotal(SkipPage(offset, limit), totalResults)
    /\ pgErrors' = pgErrors + 1
    /\ UNCHANGED <<pgPc, batchSize, maxItems, catalog, allItems, totalResults,
                   pages, pageMore, pgResult>>
    /\ UNCHANGED <<clientVars, storeVars, runVars, fetchVars, moveVars, fnVars, batchVars>>

\* while (hasMore) ends: return allItems;
PageReturn ==
    /\ pgPc = "loop" /\ ~pgHasMore
    /\ pgResult' = allItems
    /\ pgPc' = "done"
    /\ UNCHANGED <<batchSize, maxItems, catalog, allItems, pgHasMore, offset,
                   totalResults, batchNumber, requests, pages, pageMore, pgErrors>>
    /\ UNCHANGED <<clientVars, storeVars, runVars, fetchVars, moveVars, fnVars, batchVars>>

PageNext ==
    \/ MaxItemsBreak
    \/ \E n \in 0..MaxCatalog : PageOk(n)
    \/ PageError
    \/ PageReturn

\* The paginator with any pattern of failing requests.
PageNextAnyFailure ==
    \/ MaxItemsBreak
    \/ \E n \in 0..MaxCatalog : PageOk(n)
    \/ PageErrorAgain
    \/ PageReturn

\* ------------------------------------------------------------------------
\* Paginator: properties
\* ------------------------------------------------------------------------
RECURSIVE Flatten(_)
Flatten(seqs) ==
    IF seqs = <<>> THEN <<>> ELSE Head(seqs) \o Flatten(Tail(seqs))

\* C6: a sweep without maxItems and without page errors that has returned
\* issued one listing request per page, the upstream said hasMore=true on
\* every page but the last and hasMore=false on the last, and the returned
\* list is the concatenation of the pages in page order, which is the whole
\* catalogue in order: nothing dropped, nothing duplicated.
C6_PaginationConcat ==
    (pgPc = "done" /\ maxItems = NoValue /\ pgErrors = 0) =>
        /\ pgResult = Flatten(pages)
        /\ pgResult = [i \in 1..catalog |-> i]
        /\ Len(requests) = Len(pages)
        /\ Len(pageMore) >= 1
        /\ \A i \in DOMAIN pageMore : pageMore[i] = (i < Len(pageMore))

\* A finished sweep of three pages or more, one of them shorter than asked for.
C6_Witness ==
    /\ pgPc = "done" /\ maxItems = NoValue /\ pgErrors = 0
    /\ Len(pages) >= 3
    /\ \E i \in DOMAIN pages : Len(pages[i]) < requests[i].limit
    /\ pgResult = [i \in 1..catalog |-> i]

\* C7: a listing request that throws moves the offset on by exactly one page
\* width (min(batchSize, 1000)), keeps the items collected so far and leaves
\* the sweep running; when a total has been observed, the sweep stops right
\* then if and only if the new offset exceeds that total.
C7_SkipOnPageError ==
    [][ (pgErrors' = pgErrors + 1) =>
          /\ offset' = offset + (IF batchSize < 1000 THEN batchSize ELSE 1000)
          /\ allItems' = allItems
          /\ pgPc' = "loop"
          /\ (totalResults # NoValue =>
                (pgHasMore' = ~(offset' > totalResults))) ]_vars

\* A sweep that a failed page ended: the last page received said hasMore=true,
\* and the skip moved the offset past the observed total.
C7_Witness ==
    /\ pgErrors >= 1
    /\ pages # <<>>
    /\ Last(pageMore) = TRUE
    /\ totalResults # NoValue
    /\ offset > totalResults
    /\ ~pgHasMore

\* C35: with maxItems set, every listing request asks for at most
\* min(batchSize, 1000, maxItems - collected), collected being the number of
\* items gathered before the request, and the sweep returns at most maxItems
\* items.
C35_MaxItemsRespected ==
    /\ [][(requests' # requests /\ maxItems # NoValue) =>
            /\ Len(requests') = Len(requests) + 1
            /\ Last(requests').limit <= batchSize
            /\ Last(requests').limit <= 1000
            /\ Last(requests').limit <= maxItems - Len(allItems)]_vars
    /\ [](pgPc = "done" /\ maxItems # NoValue => Len(pgResult) <= maxItems)

\* A sweep of pages two wide, capped at three items of a larger catalogue: its
\* second request asked for the one item still allowed, and three came back.
C35_Witness ==
    /\ pgPc = "done"
    /\ batchSize = 2 /\ maxItems = 3 /\ catalog > 3
    /\ Len(requests) = 2
    /\ requests[1].limit = 2 /\ requests[2].limit = 1
    /\ Len(pgResult) = 3

ItemIds == {101, 102}
OrderIds == {7, 8}

\* Location entries as fetchLocationDetails returns them.
LocA == [locationId |-> 1, quantityOnHand |-> 3, quantityAvailable |-> 2]
LocB == [locationId |-> 2, quantityOnHand |-> 1, quantityAvailable |-> 5]

\* The location lists fetchItemLocations can return.
LocationLists == {<<>>, <<LocA>>, <<LocA, LocB>>}

\* response.data.isInactive: true, false, or not present.
InactiveFlags == {"true", "false", "absent"}

\* isInactive as the sync loops can see it: null as well.
FetchedFlags == InactiveFlags \cup {"null"}

\* Mutant of SumAvailable: the total taken over quantityOnHand.
RECURSIVE SumOnHand(_)
SumOnHand(locs) ==
    IF locs = <<>> THEN 0
    ELSE Head(locs).quantityOnHand + SumOnHand(Tail(locs))

\* locationsData.reduce((sum, loc) => sum + (loc.quantityAvailable || 0), 0)
RECURSIVE SumAvailable(_)
SumAvailable(locs) ==
    IF locs = <<>> THEN 0
    ELSE Head(locs).quantityAvailable + SumAvailable(Tail(locs))

\* The decimal digits of a record id, as the upstream writes the id of a
\* record in its JSON ("id": "101"); a string is the sequence of its characters.
DigitChars == <<"0", "1", "2", "3", "4", "5", "6", "7", "8", "9">>
RECURSIVE IdString(_)
IdString(n) ==
    IF n < 10 THEN <<DigitChars[n + 1]>>
    ELSE IdString(n \div 10) \o <<DigitChars[(n % 10) + 1]>>

\* parseInt(id) || 0 of an id string: the value of its leading digits, 0 when
\* there is none.
ParseIdOrZero(str) ==
    LET lead == CHOOSE k \in 0..Len(str) :
                    /\ \A i \in 1..k : \E d \in 1..10 : DigitChars[d] = str[i]
                    /\ (k < Len(str) => \A d \in 1..10 : DigitChars[d] # str[k + 1])
        ValueOf[k \in 0..Len(str)] ==
            IF k = 0 THEN 0
            ELSE 10 * ValueOf[k - 1] + (CHOOSE d \in 0..9 : DigitChars[d + 1] = str[k])
    IN ValueOf[lead]

\* Mutant of InternalId: the key falls through to the final || 0.
InternalIdZero(data) == 0

\* netSuiteData.internalId || parseInt(netSuiteData.id) || 0
InternalId(data) ==
    IF "internalId" \in DOMAIN data /\ data.internalId # 0
    THEN data.internalId
    ELSE ParseIdOrZero(data.id)

\* What fetchInventoryItemDetail returns when the record request succeeds:
\* an inactive item short-circuits to no locations and a zero total, any
\* other item carries the fetched locations and their summed availability.
FetchInventoryItemDetail(id, inactive, locs) ==
    IF inactive = "true"
    THEN [id |-> IdString(id), isInactive |-> "true", locationsData |-> <<>>,
          totalQuantity |-> 0]
    ELSE [id |-> IdString(id), isInactive |-> inactive, locationsData |-> locs,
          totalQuantity |-> SumAvailable(locs)]

\* transformInventoryData(netSuiteData) of the inventory sync script: the
\* locations and the total are copied from the fetched detail.
TransformInventoryData(data, t) ==
    [internalId    |-> InternalId(data),
     locations     |-> data.locationsData,
     totalQuantity |-> data.totalQuantity,
     lastSynced    |-> t]

\* transformInventoryData(netSuiteData, priceData, locationsData) of the
\* single-item script: the total is computed from the locations passed in.
TransformSingleItem(id, locs, t) ==
    [internalId    |-> id,
     locations     |-> locs,
     totalQuantity |-> SumAvailable(locs),
     lastSynced    |-> t]

\* mapNetSuiteToMongoose: no locations, no totalQuantity, no lastSynced.
MapNetSuiteToMongoose(id) == [internalId |-> id]

\* transformSalesOrderData, reduced to the key and the item ids of the lines,
\* for the detail of order id: internalId: parseInt(netSuiteData.id) || 0.
TransformSalesOrderData(id, items, t) ==
    [internalId |-> ParseIdOrZero(IdString(id)), itemIds |-> items, lastSynced |-> t]

\* A new InventoryItem document with the schema defaults (locations [],
\* totalQuantity 0, lastSynced Date.now) and the timestamps of its creation.
NewInventoryItem(key, t) ==
    [internalId |-> key, locations |-> <<>>, totalQuantity |-> 0,
     lastSynced |-> t, createdAt |-> t, updatedAt |-> t]

\* A new SalesOrder document with the schema defaults.
NewSalesOrder(key, t) ==
    [internalId |-> key, itemIds |-> <<>>, lastSynced |-> t,
     createdAt |-> t, updatedAt |-> t]

\* $set: the paths of the update replace the document's, the others stay.
Merge(doc, upd) ==
    [f \in DOMAIN doc |-> IF f \in DOMAIN upd THEN upd[f] ELSE doc[f]]

\* The documents the filter { internalId: key } matches.
Matching(coll, key) == {d \in coll : d.internalId = key}

\* Mutant of FindOneAndUpdate: the update always inserts a new document.
AlwaysInsert(coll, key, upd, fresh, t) ==
    coll \cup {[Merge(fresh, upd) EXCEPT !.updatedAt = t]}

\* Model.findOneAndUpdate({ internalId: key }, upd, { upsert: true, ... }) on
\* a schema with timestamps: one matching document gets the update's paths and
\* a new updatedAt; without a match a document is inserted from the defaults,
\* the filter and the update.
FindOneAndUpdate(coll, key, upd, fresh, t) ==
    LET hit == Matching(coll, key) IN
    IF hit # {}
    THEN LET d == CHOOSE x \in hit : TRUE IN
         (coll \ {d}) \cup {[Merge(d, upd) EXCEPT !.updatedAt = t]}
    ELSE coll \cup {[Merge(fresh, upd) EXCEPT !.updatedAt = t]}

\* Mutant of FindOneAndUpdateChecked: a rejected update is written all the same.
WriteThenReject(coll, key, upd, fresh, t, accepted) ==
    FindOneAndUpdate(coll, key, upd, fresh, t)

\* await Model.findOneAndUpdate(...) inside try: the cast and the validators
\* run before the command is sent, so an update that is rejected throws with
\* the collection as it was.
FindOneAndUpdateChecked(coll, key, upd, fresh, t, accepted) ==
    IF accepted THEN FindOneAndUpdate(coll, key, upd, fresh, t) ELSE coll

\* Model.updateOne({ internalId: key }, { $set: upd }) without upsert.
UpdateOne(coll, key, upd, t) ==
    LET hit == Matching(coll, key) IN
    IF hit # {}
    THEN LET d == CHOOSE x \in hit : TRUE IN
         (coll \ {d}) \cup {[Merge(d, upd) EXCEPT !.updatedAt = t]}
    ELSE coll

\* The value of lastWrite before any write.
NoWrite == [op |-> "none", coll |-> "none", key |-> 0, upd |-> [internalId |-> 0]]

\* The times a transform that precedes a write at time t can have run at.
TransformTimes(t) == {u \in 0..MaxClock : u = t \/ u + 1 = t}

\* The calls of a run, by kind, before any was made.
NoCalls == [probe |-> 0, listing |-> 0, fetch |-> 0, write |-> 0]

\* The report before the function returned.
NoReport ==
    [returned |-> FALSE, success |-> FALSE, error |-> "none", processed |-> NoValue,
     saved |-> NoValue, failed |-> NoValue, skippedInactive |-> NoValue]

StoreInit ==
    /\ store = {}
    /\ orders = {}
    /\ now = 0
    /\ lastWrite = NoWrite
    /\ repeated = FALSE
    /\ writes = 0

\* The item-id lists of a sales order's lines.
OrderItemLists == {<<>>, <<101>>, <<101, 102>>}

\* ------------------------------------------------------------------------
\* Collections: the write of each operation (SpecStore)
\* ------------------------------------------------------------------------
\* The write enters the history.
Logged(op, coll, key, upd) ==
    /\ writes < MaxWrites
    /\ lastWrite' = [op |-> op, coll |-> coll, key |-> key, upd |-> upd]
    /\ repeated' = (lastWrite' = lastWrite)
    /\ writes' = writes + 1

\* Time passes.
Tick ==
    /\ now < MaxClock
    /\ now' = now + 1
    /\ UNCHANGED <<store, orders, lastWrite, repeated, writes>>
    /\ UNCHANGED <<clientVars, pageVars, runVars, fetchVars, moveVars, fnVars, batchVars>>

\* The record write of syncInventory, syncAllInventory and
\* syncInventoryFromSalesOrders: fetch the detail, transform, upsert by the
\* transformed internalId.
UpsertInventoryRecord(id, inactive, locs, ts) ==
    LET upd == TransformInventoryData(
                   FetchInventoryItemDetail(id, inactive, locs), ts)
    IN
    /\ ts \in TransformTimes(now)
    /\ Logged("findOneAndUpdate", "inventory", upd.internalId, upd)
    /\ store' = FindOneAndUpdate(store, upd.internalId, upd,
                                 NewInventoryItem(upd.internalId, now), now)
    /\ UNCHANGED <<orders, now>>
    /\ UNCHANGED <<clientVars, pageVars, runVars, fetchVars, moveVars, fnVars, batchVars>>

\* The write of syncSingleItem: upsert by the numeric id asked for.
UpsertSingleItem(id, locs, ts) ==
    LET upd == TransformSingleItem(id, locs, ts) IN
    /\ ts \in TransformTimes(now)
    /\ Logged("findOneAndUpdate", "inventory", id, upd)
    /\ store' = FindOneAndUpdate(store, id, upd, NewInventoryItem(id, now), now)
    /\ UNCHANGED <<orders, now>>
    /\ UNCHANGED <<clientVars, pageVars, runVars, fetchVars, moveVars, fnVars, batchVars>>

\* The write of the controller's syncInventoryItems.
UpsertMappedItem(id) ==
    LET upd == MapNetSuiteToMongoose(id) IN
    /\ Logged("findOneAndUpdate", "inventory", id, upd)
    /\ store' = FindOneAndUpdate(store, id, upd, NewInventoryItem(id, now), now)
    /\ UNCHANGED <<orders, now>>
    /\ UNCHANGED <<clientVars, pageVars, runVars, fetchVars, moveVars, fnVars, batchVars>>

\* The write of the movement pass: updateOne with a $set of
\* last_movement_date and moved_last_12_months.  The schema declares neither
\* path, so strict mode drops both and the timestamp is all that is set.
UpdateMovement(id) ==
    /\ Logged("updateOne", "inventory", id, [updatedAt |-> now])
    /\ store' = UpdateOne(store, id, [updatedAt |-> now], now)
    /\ UNCHANGED <<orders, now>>
    /\ UNCHANGED <<clientVars, pageVars, runVars, fetchVars, moveVars, fnVars, batchVars>>

\* The record write of syncSalesOrders.
UpsertSalesOrder(id, items, ts) ==
    LET upd == TransformSalesOrderData(id, items, ts) IN
    /\ ts \in TransformTimes(now)
    /\ Logged("findOneAndUpdate", "orders", id, upd)
    /\ orders' = FindOneAndUpdate(orders, id, upd, NewSalesOrder(id, now), now)
    /\ UNCHANGED <<store, now>>
    /\ UNCHANGED <<clientVars, pageVars, runVars, fetchVars, moveVars, fnVars, batchVars>>

NextStore ==
    \/ Tick
    \/ \E id \in ItemIds, inactive \in InactiveFlags, locs \in LocationLists,
          ts \in 0..MaxClock : UpsertInventoryRecord(id, inactive, locs, ts)
    \/ \E id \in ItemIds, locs \in LocationLists, ts \in 0..MaxClock :
          UpsertSingleItem(id, locs, ts)
    \/ \E id \in ItemIds : UpsertMappedItem(id)
    \/ \E id \in ItemIds : UpdateMovement(id)
    \/ \E id \in OrderIds, items \in OrderItemLists, ts \in 0..MaxClock :
          UpsertSalesOrder(id, items, ts)

\* ------------------------------------------------------------------------
\* Collections: properties
\* ------------------------------------------------------------------------
\* No two documents of a collection carry the same internalId.
UniqueKeys(coll) ==
    \A d1 \in coll, d2 \in coll : d1.internalId = d2.internalId => d1 = d2

\* A collection without the updatedAt the timestamps plugin maintains.
WithoutUpdatedAt(coll) ==
    {[f \in DOMAIN d \ {"updatedAt"} |-> d[f]] : d \in coll}

\* The step is a findOneAndUpdate with the filter and the update of the
\* findOneAndUpdate before it.
RepeatedUpsert ==
    /\ writes' = writes + 1
    /\ lastWrite' = lastWrite
    /\ lastWrite.op = "findOneAndUpdate"

RECURSIVE SeqSum(_)
SeqSum(q) == IF q = <<>> THEN 0 ELSE Head(q) + SeqSum(Tail(q))

TimePaths == {"createdAt", "updatedAt", "lastSynced"}

\* The document a full replace by upd leaves: the paths of upd, and the
\* schema default for every other path.
Replaced(upd, f) ==
    IF f \in DOMAIN upd THEN upd[f] ELSE NewInventoryItem(upd.internalId, 0)[f]

\* C23: after a findOneAndUpdate of a sync for an internalId the inventory
\* collection already holds, the stored document equals the update document
\* field for field: no value of an earlier write survives unless the update
\* carries it.
C23_ResyncIsFullReplace ==
    [][(/\ writes' = writes + 1
        /\ lastWrite'.op = "findOneAndUpdate"
        /\ lastWrite'.coll = "inventory"
        /\ Matching(store, lastWrite'.key) # {}) =>
          \A d \in Matching(store', lastWrite'.key) :
              \A f \in (DOMAIN d) \ TimePaths :
                  d[f] = Replaced(lastWrite'.upd, f)]_vars

\* ------------------------------------------------------------------------
\* Orchestrator: syncInventory ("incremental"), syncAllInventory ("sweep"),
\* syncInventoryFromSalesOrders ("fromSalesOrders"), syncSalesOrders
\* ("salesOrders")
\* ------------------------------------------------------------------------
InventoryModes == {"incremental", "sweep", "fromSalesOrders"}
Modes == InventoryModes \cup {"salesOrders", "controller"}

\* The sync functions that begin with `await testAuthentication()`.
HasPreflight(m) == m \in InventoryModes

\* The sequences of distinct elements of S: what a listing can return.
DistinctSeqs(S) ==
    {q \in UNION {[1..n -> S] : n \in 0..Cardinality(S)} :
        \A i \in DOMAIN q, j \in DOMAIN q : i # j => q[i] # q[j]}

\* The internalIds a collection holds.
Keys(coll) == {d.internalId : d \in coll}

\* itemIdSet of syncInventoryFromSalesOrders: the item ids of the lines of
\* the stored sales orders.
OrderedItemIds == UNION {{o.itemIds[i] : i \in DOMAIN o.itemIds} : o \in orders}

\* Mutant of Listings: fromSalesOrders takes every ordered item id.
ListingsIgnoringStore(m) ==
    CASE m = "salesOrders"     -> DistinctSeqs(OrderIds)
      [] m = "fromSalesOrders" ->
            {q \in DistinctSeqs(ItemIds) :
                {q[i] : i \in DOMAIN q} = OrderedItemIds}
      [] OTHER                 -> DistinctSeqs(ItemIds)

\* The candidate lists the listing step of mode m can produce: the upstream's
\* answer (empty when the listing request failed), or for fromSalesOrders the
\* ordered item ids the inventory collection does not hold yet.
Listings(m) ==
    CASE m = "salesOrders"     -> DistinctSeqs(OrderIds)
      [] m = "fromSalesOrders" ->
            {q \in DistinctSeqs(ItemIds) :
                {q[i] : i \in DOMAIN q} = OrderedItemIds \ Keys(store)}
      [] OTHER                 -> DistinctSeqs(ItemIds)

\* Mutant of SkipsInactive: both modes skip only a flag that is true.
SkipsOnlyTrue(m, inactive) ==
    m \in {"sweep", "fromSalesOrders"} /\ inactive = "true"

\* Mutant of SkipsInactive: the full sweep has lost its test.
SkipsOnlyFromSalesOrders(m, inactive) ==
    m = "fromSalesOrders" /\ inactive # "false"

\* if (detailedData.isInactive === true) in syncAllInventory,
\* if (detailedData.isInactive !== false) in syncInventoryFromSalesOrders;
\* syncInventory has no such test.
SkipsInactive(m, inactive) ==
    \/ m = "sweep" /\ inactive = "true"
    \/ m = "fromSalesOrders" /\ inactive # "false"

\* The body of a sales order detail response: a JSON object, or something
\* else that is truthy (text, or an object whose entity.refName is no string).
DetailKinds == {"object", "malformed"}

\* Mutant of TransformThrows: the transform of every mode throws on it.
TransformThrowsAnywhere(m, kind) == kind = "malformed"

\* transformSalesOrderData throws a TypeError on such a body:
\* customer.customerName.includes is no function, `fieldName in data` needs
\* an object.
TransformThrows(m, kind) == m = "salesOrders" /\ kind = "malformed"

\* The limits syncInventory(limit = 10, date) is called with.
Limits == {1, 10}

\* Before the listing step of a run.
NoListing == [ok |-> TRUE, items |-> <<>>, limit |-> NoValue]

\* fetchInventoryItems and fetchSalesOrders catch the failure of their
\* request and return [].
CaughtListingModes == {"incremental", "salesOrders"}

\* return response.data?.items || [];  } catch (error) { return []; }
FetchInventoryItems(ok, list) == IF ok THEN list ELSE <<>>

\* Mutant of ItemsToProcess: the whole listing is processed.
ItemsToProcessAll(items, limit) == items

\* const itemsToProcess = items.slice(0, limit);
ItemsToProcess(items, limit) == SubSeq(items, 1, Min(limit, Len(items)))

\* The returned object: success, the counters, and the kind of error.
Report(ok, err, processed, saved, failed, skipped) ==
    [returned |-> TRUE, success |-> ok, error |-> err, processed |-> processed,
     saved |-> saved, failed |-> failed, skippedInactive |-> skipped]

\* The locations a fetched detail carries in a run.
SyncLocationLists == {<<>>, <<LocA, LocB>>}

\* One pass of the for-loop over candidate id: the isInactive of the fetched
\* detail ("none" without a detail), how the pass ended, and whether
\* findOneAndUpdate was called.
Iteration(id, inactive, outcome, wrote) ==
    [id |-> id, inactive |-> inactive, outcome |-> outcome, wrote |-> wrote]

\* Before the first pass of a run.
NoIteration == Iteration(0, "none", "none", FALSE)

\* The candidate the for-loop takes next.
Cur == cands[idx + 1]

InLoop == pc = "loop" /\ idx < Len(cands)

\* One more call of each kind of `kinds`.
Called(kinds) == [k \in DOMAIN calls |-> IF k \in kinds THEN calls[k] + 1 ELSE calls[k]]

\* The lines writeErrorLog appends for a detail that could not be fetched:
\* syncAllInventory calls it, the other sync functions keep no log file.
WriteErrorLog(m) == IF m = "sweep" THEN 1 ELSE 0

\* netsuiteRequest rethrows the 429 once retries is 0: a request that failed
\* did so for that reason or for another, and the catch of the caller does
\* not tell them apart.
MayExhaust(step) == {exhausted, exhausted \cup {step}}

\* A sync function is called.
StartRun(m) ==
    /\ pc \in {"idle", "done"}
    /\ runs < MaxRuns
    /\ runs' = runs + 1
    /\ mode' = m
    /\ pc' = IF HasPreflight(m) THEN "auth" ELSE "list"
    /\ cands' = <<>>
    /\ listed' = NoListing
    /\ idx' = 0
    /\ processedCount' = 0
    /\ savedCount' = 0
    /\ skippedInactiveCount' = 0
    /\ errors' = <<>>
    /\ raised' = {}
    /\ calls' = NoCalls
    /\ report' = NoReport
    /\ startStore' = store
    /\ last' = NoIteration
    /\ exhausted' = {}
    /\ logLines' = 0
    /\ UNCHANGED <<clientVars, pageVars, storeVars, fetchVars, moveVars, fnVars, batchVars>>

\* const authSuccess = await testAuthentication(); if (!authSuccess) return ...
TestAuthentication(ok) ==
    /\ pc = "auth"
    /\ calls' = Called({"probe"})
    /\ IF ok
       THEN pc' = "list" /\ UNCHANGED report
       ELSE /\ pc' = "done"
            /\ report' = Report(FALSE, "auth", NoValue, NoValue, NoValue, NoValue)
    /\ UNCHANGED <<mode, cands, listed, idx, processedCount, savedCount,
                   skippedInactiveCount, errors, raised, runs, startStore, last>>
    /\ exhausted' \in IF ok THEN {exhausted} ELSE MayExhaust("probe")
    /\ UNCHANGED logLines
    /\ UNCHANGED <<clientVars, pageVars, storeVars, fetchVars, moveVars, fnVars, batchVars>>

\* The listing step: fetchInventoryItems + slice, fetchAllInventoryItems,
\* SalesOrder.find + InventoryItem.find, or fetchSalesOrders; `list` is the
\* answer of the upstream, ok whether the request returned it, limit the
\* limit the run was called with.  An empty list returns at once.
ListCandidates(list, ok, limit) ==
    LET items == IF mode \in CaughtListingModes
                 THEN FetchInventoryItems(ok, list) ELSE list
        toDo  == IF mode = "incremental" THEN ItemsToProcess(items, limit) ELSE items
    IN
    /\ pc = "list"
    /\ list \in Listings(mode)
    /\ ok \/ (mode \in CaughtListingModes /\ list = <<>>)
    /\ limit \in (IF mode = "incremental" THEN Limits ELSE {NoValue})
    /\ calls' = Called({"listing"})
    /\ cands' = toDo
    /\ listed' = [ok |-> ok, items |-> list, limit |-> limit]
    /\ IF items = <<>> /\ mode # "controller"
       THEN /\ pc' = "done"
            /\ report' = Report(TRUE, "none", 0, 0, NoValue, NoValue)
       ELSE pc' = "loop" /\ UNCHANGED report
    /\ UNCHANGED <<mode, idx, processedCount, savedCount, skippedInactiveCount,
                   errors, raised, runs, startStore, last>>
    /\ UNCHANGED exhausted
    /\ UNCHANGED logLines
    /\ UNCHANGED <<clientVars, pageVars, storeVars, fetchVars, moveVars, fnVars, batchVars>>

\* SalesOrder.find or InventoryItem.find of syncInventoryFromSalesOrders
\* rejects, or getAllInventoryItems of the controller throws: the function's
\* outer catch returns { success: false, error }.
ListingThrows ==
    /\ pc = "list"
    /\ mode \in {"fromSalesOrders", "controller"}
    /\ calls' = Called({"listing"})
    /\ pc' = "done"
    /\ report' = Report(FALSE, "exception", NoValue, NoValue, NoValue, NoValue)
    /\ UNCHANGED <<mode, cands, listed, idx, processedCount, savedCount,
                   skippedInactiveCount, errors, raised, runs, startStore, last>>
    /\ UNCHANGED exhausted
    /\ UNCHANGED logLines
    /\ UNCHANGED <<clientVars, pageVars, storeVars, fetchVars, moveVars, fnVars, batchVars>>

\* One iteration whose detail fetch returned null.
RecordFetchFailed ==
    /\ InLoop
    /\ calls' = Called({"fetch"})
    /\ errors' = Append(errors, Cur)
    /\ raised' = raised \cup {Cur}
    /\ processedCount' = processedCount + 1
    /\ idx' = idx + 1
    /\ last' = Iteration(Cur, "none", "fetchFailed", FALSE)
    /\ UNCHANGED <<mode, pc, cands, listed, savedCount, skippedInactiveCount, report, runs,
                   startStore>>
    /\ exhausted' \in MayExhaust("fetch")
    /\ logLines' = logLines + WriteErrorLog(mode)
    /\ UNCHANGED <<clientVars, pageVars, storeVars, fetchVars, moveVars, fnVars, batchVars>>

\* One iteration that ends at `skippedInactiveCount++; continue;`.
RecordSkippedInactive(inactive) ==
    /\ InLoop
    /\ SkipsInactive(mode, inactive)
    /\ calls' = Called({"fetch"})
    /\ skippedInactiveCount' = skippedInactiveCount + 1
    /\ processedCount' = processedCount + 1
    /\ idx' = idx + 1
    /\ last' = Iteration(Cur, inactive, "skippedInactive", FALSE)
    /\ UNCHANGED <<mode, pc, cands, listed, savedCount, errors, raised, report, runs,
                   startStore>>
    /\ UNCHANGED exhausted
    /\ UNCHANGED logLines
    /\ UNCHANGED <<clientVars, pageVars, storeVars, fetchVars, moveVars, fnVars, batchVars>>

\* One iteration of an inventory mode that fetched, transformed and called
\* findOneAndUpdate; the store accepts the update or rejects it (validation).
RecordUpsertItem(inactive, locs, accepted) ==
    LET upd == TransformInventoryData(
                   FetchInventoryItemDetail(Cur, inactive, locs), now)
    IN
    /\ InLoop
    /\ mode \in InventoryModes
    /\ ~SkipsInactive(mode, inactive)
    /\ calls' = Called({"fetch", "write"})
    /\ store' = FindOneAndUpdateChecked(store, upd.internalId, upd,
                                        NewInventoryItem(upd.internalId, now),
                                        now, accepted)
    /\ IF accepted
       THEN /\ savedCount' = savedCount + 1
            /\ UNCHANGED <<errors, raised>>
       ELSE /\ errors' = Append(errors, Cur)
            /\ raised' = raised \cup {Cur}
            /\ UNCHANGED savedCount
    /\ processedCount' = processedCount + 1
    /\ idx' = idx + 1
    /\ last' = Iteration(Cur, inactive, IF accepted THEN "saved" ELSE "rejected", TRUE)
    /\ UNCHANGED <<mode, pc, cands, listed, skippedInactiveCount, report, runs, startStore>>
    /\ UNCHANGED <<orders, now, lastWrite, repeated, writes>>
    /\ UNCHANGED exhausted
    /\ UNCHANGED logLines
    /\ UNCHANGED <<clientVars, pageVars, fetchVars, moveVars, fnVars, batchVars>>

\* One item of the controller's syncInventoryItems that was fetched with its
\* price, mapped and passed to findOneAndUpdate.
RecordUpsertMapped(accepted) ==
    LET upd == MapNetSuiteToMongoose(Cur) IN
    /\ InLoop
    /\ mode = "controller"
    /\ calls' = Called({"fetch", "write"})
    /\ store' = FindOneAndUpdateChecked(store, upd.internalId, upd,
                                        NewInventoryItem(upd.internalId, now),
                                        now, accepted)
    /\ IF accepted
       THEN /\ savedCount' = savedCount + 1
            /\ UNCHANGED <<errors, raised>>
       ELSE /\ errors' = Append(errors, Cur)
            /\ raised' = raised \cup {Cur}
            /\ UNCHANGED savedCount
    /\ processedCount' = processedCount + 1
    /\ idx' = idx + 1
    /\ last' = Iteration(Cur, "none", IF accepted THEN "saved" ELSE "rejected", TRUE)
    /\ UNCHANGED <<mode, pc, cands, listed, skippedInactiveCount, report, runs, startStore>>
    /\ UNCHANGED <<orders, now, lastWrite, repeated, writes>>
    /\ UNCHANGED exhausted
    /\ UNCHANGED logLines
    /\ UNCHANGED <<clientVars, pageVars, fetchVars, moveVars, fnVars, batchVars>>

\* One iteration of syncSalesOrders that fetched a well-formed order,
\* transformed it and called findOneAndUpdate.
RecordUpsertOrder(items, accepted) ==
    LET upd == TransformSalesOrderData(Cur, items, now) IN
    /\ InLoop
    /\ mode = "salesOrders"
    /\ ~TransformThrows(mode, "object")
    /\ calls' = Called({"fetch", "write"})
    /\ orders' = FindOneAndUpdateChecked(orders, upd.internalId, upd,
                                         NewSalesOrder(upd.internalId, now),
                                         now, accepted)
    /\ IF accepted
       THEN /\ savedCount' = savedCount + 1
            /\ UNCHANGED <<errors, raised>>
       ELSE /\ errors' = Append(errors, Cur)
            /\ raised' = raised \cup {Cur}
            /\ UNCHANGED savedCount
    /\ processedCount' = processedCount + 1
    /\ idx' = idx + 1
    /\ last' = Iteration(Cur, "none", IF accepted THEN "saved" ELSE "rejected", TRUE)
    /\ UNCHANGED <<mode, pc, cands, listed, skippedInactiveCount, report, runs, startStore>>
    /\ UNCHANGED <<store, now, lastWrite, repeated, writes>>
    /\ UNCHANGED exhausted
    /\ UNCHANGED logLines
    /\ UNCHANGED <<clientVars, pageVars, fetchVars, moveVars, fnVars, batchVars>>

\* One iteration of syncSalesOrders whose findOneAndUpdate succeeded and whose
\* log lines after savedCount++, inside the same try, throw:
\* transformedData.totalAmount.toFixed(2) with totalAmount = netSuiteData.total
\* a numeric string, which the schema casts for the write and the script does
\* not.  The catch of the write pushes the order to errors.
RecordUpsertOrderLogThrows(items) ==
    LET upd == TransformSalesOrderData(Cur, items, now) IN
    /\ InLoop
    /\ mode = "salesOrders"
    /\ ~TransformThrows(mode, "object")
    /\ calls' = Called({"fetch", "write"})
    /\ orders' = FindOneAndUpdate(orders, upd.internalId, upd,
                                  NewSalesOrder(upd.internalId, now), now)
    /\ savedCount' = savedCount + 1
    /\ errors' = Append(errors, Cur)
    /\ raised' = raised \cup {Cur}
    /\ processedCount' = processedCount + 1
    /\ idx' = idx + 1
    /\ last' = Iteration(Cur, "none", "savedThenThrew", TRUE)
    /\ UNCHANGED <<mode, pc, cands, listed, skippedInactiveCount, report, runs, startStore>>
    /\ UNCHANGED <<store, now, lastWrite, repeated, writes>>
    /\ UNCHANGED exhausted
    /\ UNCHANGED logLines
    /\ UNCHANGED <<clientVars, pageVars, fetchVars, moveVars, fnVars, batchVars>>

\* One iteration of syncSalesOrders whose transform throws: the call sits
\* outside the inner try, so the function's outer catch returns
\* { success: false, error } and the loop is over.
RecordTransformThrows(kind) ==
    /\ InLoop
    /\ TransformThrows(mode, kind)
    /\ calls' = Called({"fetch"})
    /\ raised' = raised \cup {Cur}
    /\ pc' = "done"
    /\ report' = Report(FALSE, "exception", NoValue, NoValue, NoValue, NoValue)
    /\ UNCHANGED <<mode, cands, listed, idx, processedCount, savedCount,
                   skippedInactiveCount, errors, runs, startStore>>
    /\ last' = Iteration(Cur, "none", "threw", FALSE)
    /\ UNCHANGED exhausted
    /\ UNCHANGED logLines
    /\ UNCHANGED <<clientVars, pageVars, storeVars, fetchVars, moveVars, fnVars, batchVars>>

\* The loop is over: return { success: true, processed, saved, failed, ... }.
FinishRun ==
    /\ pc = "loop" /\ idx = Len(cands)
    /\ pc' = "done"
    /\ report' = Report(TRUE, "none", processedCount, savedCount, Len(errors),
                        IF mode \in {"sweep", "fromSalesOrders"}
                        THEN skippedInactiveCount ELSE NoValue)
    /\ UNCHANGED <<mode, cands, listed, idx, processedCount, savedCount,
                   skippedInactiveCount, errors, raised, calls, runs,
                   startStore, last>>
    /\ UNCHANGED exhausted
    /\ UNCHANGED logLines
    /\ UNCHANGED <<clientVars, pageVars, storeVars, fetchVars, moveVars, fnVars, batchVars>>

NextSync ==
    \/ \E m \in Modes : StartRun(m)
    \/ \E ok \in BOOLEAN : TestAuthentication(ok)
    \/ \E list \in DistinctSeqs(ItemIds) \cup DistinctSeqs(OrderIds) :
          \E ok \in BOOLEAN, limit \in Limits \cup {NoValue} :
              ListCandidates(list, ok, limit)
    \/ ListingThrows
    \/ RecordFetchFailed
    \/ \E inactive \in FetchedFlags : RecordSkippedInactive(inactive)
    \/ \E inactive \in FetchedFlags, locs \in SyncLocationLists, accepted \in BOOLEAN :
          RecordUpsertItem(inactive, locs, accepted)
    \/ \E accepted \in BOOLEAN : RecordUpsertMapped(accepted)
    \/ \E items \in OrderItemLists, accepted \in BOOLEAN :
          RecordUpsertOrder(items, accepted)
    \/ \E items \in OrderItemLists : RecordUpsertOrderLogThrows(items)
    \/ \E kind \in DetailKinds : RecordTransformThrows(kind)
    \/ FinishRun

\* The steps of a run that has been started: the continuations of the async
\* function, which the event loop always resumes.
RunStep ==
    \/ \E ok \in BOOLEAN : TestAuthentication(ok)
    \/ \E list \in DistinctSeqs(ItemIds) \cup DistinctSeqs(OrderIds) :
          \E ok \in BOOLEAN, limit \in Limits \cup {NoValue} :
              ListCandidates(list, ok, limit)
    \/ ListingThrows
    \/ RecordFetchFailed
    \/ \E inactive \in FetchedFlags : RecordSkippedInactive(inactive)
    \/ \E inactive \in FetchedFlags, locs \in SyncLocationLists, accepted \in BOOLEAN :
          RecordUpsertItem(inactive, locs, accepted)
    \/ \E accepted \in BOOLEAN : RecordUpsertMapped(accepted)
    \/ \E items \in OrderItemLists, accepted \in BOOLEAN :
          RecordUpsertOrder(items, accepted)
    \/ \E items \in OrderItemLists : RecordUpsertOrderLogThrows(items)
    \/ \E kind \in DetailKinds : RecordTransformThrows(kind)
    \/ FinishRun

\* ------------------------------------------------------------------------
\* Orchestrator: properties
\* ------------------------------------------------------------------------
\* The collection the running mode writes to.
Target == IF mode = "salesOrders" THEN orders ELSE store

\* C4: a run in which the fetch, transform or upsert of a candidate raised
\* ends with a report of processed = N and failed >= 1, and every candidate
\* for which nothing raised is in the store.
C4_FaultIsolation ==
    (pc = "done" /\ raised # {}) =>
        /\ report.processed = Len(cands)
        /\ report.failed >= 1
        /\ \A i \in DOMAIN cands :
              cands[i] \notin raised => cands[i] \in Keys(Target)

\* C5: in every run the pre-flight probe precedes any listing, fetch or
\* write, and a run whose probe failed has made none of these calls.
C5_PreflightProbe ==
    /\ (calls.listing > 0 \/ calls.fetch > 0 \/ calls.write > 0) => calls.probe >= 1
    /\ (report.returned /\ report.error = "auth") =>
          (calls.listing = 0 /\ calls.fetch = 0 /\ calls.write = 0)

\* The ids of a candidate list.
Range(q) == {q[i] : i \in DOMAIN q}

\* The loop of syncInventoryFromSalesOrders has been entered or is over.
FromSalesOrdersListed ==
    /\ mode = "fromSalesOrders"
    /\ \/ pc = "loop"
       \/ pc = "done" /\ report.success

\* C15: in a run of syncInventoryFromSalesOrders no ordered item id that the
\* inventory collection held when the run started is fetched, and its
\* document stays as it was; the ordered ids the collection did not hold are
\* the candidates, each once, and each is taken by exactly one iteration.
C15_FromSalesOrdersFrame ==
    FromSalesOrdersListed =>
        /\ Range(cands) = OrderedItemIds \ Keys(startStore)
        /\ \A i \in DOMAIN cands, j \in DOMAIN cands : i # j => cands[i] # cands[j]
        /\ calls.fetch = idx
        /\ processedCount = idx
        /\ last # NoIteration => last.id = cands[idx]
        /\ \A id \in OrderedItemIds \cap Keys(startStore) :
              /\ last.id # id
              /\ Matching(store, id) = Matching(startStore, id)
        /\ pc = "done" => report.processed = Len(cands)

\* A finished run that found one ordered id stored and saved the other.
C15_Witness ==
    /\ mode = "fromSalesOrders" /\ pc = "done" /\ report.success
    /\ OrderedItemIds \cap Keys(startStore) # {}
    /\ Len(cands) = 1
    /\ report.saved = 1
    /\ Keys(store) = ItemIds

\* C16: syncInventoryFromSalesOrders calls findOneAndUpdate only for a detail
\* whose isInactive is false, and counts a detail whose flag is true, null or
\* absent as skipped-inactive without writing it; syncAllInventory skips a
\* detail exactly when its flag is true.
C16_InactiveFilter ==
    /\ (mode = "fromSalesOrders" /\ pc \in {"loop", "done"}) =>
          /\ last.wrote => last.inactive = "false"
          /\ last.inactive \in {"true", "null", "absent"} =>
                /\ last.outcome = "skippedInactive"
                /\ ~last.wrote
                /\ last.id \notin Keys(store)
                /\ skippedInactiveCount >= 1
    /\ (mode = "sweep" /\ pc \in {"loop", "done"}) =>
          /\ last.outcome = "skippedInactive" => last.inactive = "true"
          /\ last.inactive = "true" => last.outcome = "skippedInactive" /\ ~last.wrote
          /\ last.inactive \in {"false", "null", "absent"} => last.wrote

\* syncInventoryFromSalesOrders skipped a detail whose isInactive is null
\* after it had saved one whose flag is false.
C16_Witness ==
    /\ mode = "fromSalesOrders" /\ pc = "loop"
    /\ last.inactive = "null"
    /\ last.outcome = "skippedInactive"
    /\ savedCount = 1
    /\ skippedInactiveCount = 1

\* syncInventory and syncInventoryFromSalesOrders.
PreflightLoopModes == {"incremental", "fromSalesOrders"}

\* The run has returned { success: true } with processed = the candidates.
FinishedWithSuccess ==
    pc = "done" /\ report.success /\ report.processed = Len(cands)

C20_RetryExhaustionRecoverable ==
    (mode \in InventoryModes /\ pc = "done" /\ exhausted # {}) =>
        /\ report.success
        /\ report.processed = Len(cands)
        /\ "fetch" \in exhausted => report.failed >= 1

\* A counter the report leaves out counts nothing.
\* The sync functions of the scripts.
ScriptModes == InventoryModes \cup {"salesOrders"}

C37_InactiveNeverWritten ==
    [][(mode' = "sweep" /\ pc = "loop" /\ idx' = idx + 1 /\ last'.inactive = "true") =>
          /\ skippedInactiveCount' = skippedInactiveCount + 1
          /\ savedCount' = savedCount
          /\ errors' = errors
          /\ ~last'.wrote
          /\ calls'.write = calls.write
          /\ store' = store /\ orders' = orders]_vars

\* A sweep that has just skipped an inactive item of which the collection
\* holds a record, which is the record it held when the run started.
C37_Witness ==
    /\ mode = "sweep" /\ pc = "loop"
    /\ last.inactive = "true" /\ last.outcome = "skippedInactive"
    /\ skippedInactiveCount >= 1
    /\ \E d \in store : d.internalId = last.id /\ d \in startStore

\* What syncInventory returns when there is nothing to process.
NothingToSync == Report(TRUE, "none", 0, 0, NoValue, NoValue)

\* C40: a run of syncInventory whose listing request failed returns what a
\* run with an empty listing returns: success with processed 0 and saved 0,
\* having fetched no detail, written nothing and recorded no error; a run
\* whose listing was answered takes the first `limit` items of the answer as
\* its candidates, in the answer's order, and processes no more than `limit`.
C40_FailedListingLooksEmpty ==
    /\ [](mode = "incremental" /\ pc \in {"loop", "done"} /\ report.error # "auth" =>
            /\ (~listed.ok \/ listed.items = <<>>) =>
                  /\ pc = "done" /\ report = NothingToSync
                  /\ calls.fetch = 0 /\ calls.write = 0
                  /\ errors = <<>> /\ store = startStore
            /\ listed.ok =>
                  /\ Len(cands) = (IF Len(listed.items) < listed.limit
                                   THEN Len(listed.items) ELSE listed.limit)
                  /\ \A i \in DOMAIN cands : cands[i] = listed.items[i]
                  /\ processedCount <= listed.limit
                  /\ (pc = "done" /\ cands # <<>> => report.processed = Len(cands)))

\* A second run of syncInventory, over a collection that holds records, whose
\* listing request failed: it returned the report of an empty listing.
C40_Witness ==
    /\ mode = "incremental" /\ pc = "done" /\ runs = 2
    /\ ~listed.ok
    /\ report = NothingToSync
    /\ store # {}

CountOf(x) == IF x = NoValue THEN 0 ELSE x

\* The run has passed its pre-flight check, if it has one, and has returned.
ReturnedPastPreflight ==
    mode \in ScriptModes /\ pc = "done" /\ report.returned /\ report.error # "auth"

\* C33: at the end of every run that passed pre-flight each processed
\* candidate is counted in one outcome: processed = saved + skippedInactive
\* + failed, with skippedInactive 0 in incremental and sales-order mode, and
\* saved counts the iterations whose store write succeeded.
C33_CounterConservation ==
    /\ [](ReturnedPastPreflight =>
            /\ CountOf(report.processed) =
                  CountOf(report.saved) + CountOf(report.skippedInactive)
                    + CountOf(report.failed)
            /\ mode \in {"incremental", "salesOrders"} =>
                  CountOf(report.skippedInactive) = 0
            /\ report.success => report.saved = savedCount)
    /\ [][(mode' \in ScriptModes /\ pc = "loop") =>
            (savedCount' = savedCount + 1) =
                (idx' = idx + 1 /\ last'.wrote /\ last'.outcome # "rejected")]_vars

\* C21: when a run of syncAllInventory over at least one candidate has
\* returned, the log file of the run holds one failure line for every
\* failure the report counts.
C21_DurableErrorLog ==
    (mode = "sweep" /\ pc = "done" /\ report.success /\ cands # <<>>) =>
        logLines = report.failed

\* C22: an iteration whose findOneAndUpdate was rejected leaves both
\* collections as they were, adds the id to errors, does not count it as
\* saved, and leaves the loop running.
C22_RejectedUpsertIsPerRecord ==
    [][(pc = "loop" /\ idx' = idx + 1 /\ last'.outcome = "rejected") =>
          /\ store' = store
          /\ orders' = orders
          /\ errors' = Append(errors, Cur)
          /\ savedCount' = savedCount
          /\ processedCount' = processedCount + 1
          /\ pc' = "loop"]_vars

\* The first candidate of a run was rejected and the second was saved
\* afterwards.
C22_Witness ==
    /\ pc = "done" /\ report.success
    /\ Len(cands) = 2
    /\ errors = <<cands[1]>>
    /\ cands[1] \notin Keys(Target)
    /\ last = Iteration(cands[2], last.inactive, "saved", TRUE)
    /\ report.saved = 1 /\ report.failed = 1
    /\ calls.write = 2

\* ------------------------------------------------------------------------
\* Record fetcher: the upstream's data and the price functions
\* ------------------------------------------------------------------------
\* "inventory": the inventory sync script with syncAllInventory;
\* "legacy": scripts/syncInventory.js; "single": the single-item script.
FetchScripts == {"inventory", "legacy", "single"}

\* The price details the upstream can hold for an item.  A detail without a
\* price reads as 0 through `detail.price || 0`.
PriceLevels ==
    {[priceLevelName |-> "WLP (Base)", price |-> 100],
     [priceLevelName |-> "LPCP (HKD)", price |-> 120],
     [priceLevelName |-> "LPCP (HKD)", price |-> 0],
     [priceLevelName |-> "EP (EUR)",   price |-> 80]}

PriceLists == UNION {[1..n -> PriceLevels] : n \in 0..MaxLevels}

\* response.data.currency?.refName
CurrencyRefs == {"absent", "HKD", "EUR", "USD"}

\* The location entry number i of the upstream's location list.
UpLocation(i) ==
    [locationId |-> i, quantityOnHand |-> i, quantityAvailable |-> i % 3]

\* The main address the upstream holds for every location.
UpAddress ==
    [addressee |-> "Cellar", city |-> "Hong Kong", country |-> "HK", zip |-> "999077"]

\* A location that lost its quantities with its address.
LocationDetailsWithoutQuantities(script, i, addressOk) ==
    IF script # "single" THEN UpLocation(i)
    ELSE [locationId |-> i,
          address |-> IF addressOk THEN UpAddress.addressee ELSE "",
          city    |-> IF addressOk THEN UpAddress.city ELSE "",
          country |-> IF addressOk THEN UpAddress.country ELSE "",
          zip     |-> IF addressOk THEN UpAddress.zip ELSE "",
          quantityOnHand    |-> IF addressOk THEN UpLocation(i).quantityOnHand ELSE 0,
          quantityAvailable |-> IF addressOk THEN UpLocation(i).quantityAvailable ELSE 0]

\* What fetchLocationDetails returns once the detail request has answered.
\* The single-item script then asks for the main address of the location and
\* falls through to the entry with empty address fields when that request
\* fails; the inventory scripts ask for no address and return the four paths
\* of the detail.
LocationDetails(script, i, addressOk) ==
    IF script # "single" THEN UpLocation(i)
    ELSE [locationId |-> i,
          address |-> IF addressOk THEN UpAddress.addressee ELSE "",
          city    |-> IF addressOk THEN UpAddress.city ELSE "",
          country |-> IF addressOk THEN UpAddress.country ELSE "",
          zip     |-> IF addressOk THEN UpAddress.zip ELSE "",
          quantityOnHand    |-> UpLocation(i).quantityOnHand,
          quantityAvailable |-> UpLocation(i).quantityAvailable]

\* { price: 0, currency: "HKD", tradePrice: 0, retailPrice: 0 }
DefaultPriceData ==
    [price |-> 0, currency |-> "HKD", tradePrice |-> 0, retailPrice |-> 0]

\* let currency = "HKD"; if (itemCurrency?.includes("EUR")) currency = "EUR";
\* else if (itemCurrency?.includes("USD")) currency = "USD";
\* the single-item script takes no item currency.
InitialCurrency(script, ref) ==
    IF script # "single" /\ ref \in {"EUR", "USD"} THEN ref ELSE "HKD"

\* The body of the price loop for one fetched detail.
ApplyLevel(pd, detail) ==
    IF detail.priceLevelName = "WLP (Base)"
    THEN [pd EXCEPT !.tradePrice = detail.price]
    ELSE IF detail.priceLevelName = "LPCP (HKD)"
    THEN [pd EXCEPT !.retailPrice = detail.price, !.price = detail.price,
                    !.currency = "HKD"]
    ELSE pd

\* if (!price && tradePrice) price = tradePrice;           (inventory scripts)
\* if (retailPrice === 0 && tradePrice > 0) price = tradePrice;  (single-item)
FinalPrice(script, pd) ==
    IF script = "single"
    THEN IF pd.retailPrice = 0 /\ pd.tradePrice > 0
         THEN [pd EXCEPT !.price = pd.tradePrice] ELSE pd
    ELSE IF pd.price = 0 /\ pd.tradePrice # 0
         THEN [pd EXCEPT !.price = pd.tradePrice] ELSE pd

\* if (hasTradePrice && hasRetailPrice) break;   (inventory scripts only)
PriceLoopOver ==
    \/ fIdx = Len(up.levels)
    \/ fScript # "single" /\ hasTradePrice /\ hasRetailPrice

\* The calls of a fetch, by kind, before any was made.
NoFetchCalls ==
    [base |-> 0, priceList |-> 0, priceDetail |-> 0, locList |-> 0, locDetail |-> 0]

\* One more call of kind k.
FetchCalled(k) == [fCalls EXCEPT ![k] = @ + 1]

\* The locals of a fetch before its first call.
FetchLocalsInit ==
    /\ fPc = "base"
    /\ fIdx = 0
    /\ priceData = DefaultPriceData
    /\ hasTradePrice = FALSE
    /\ hasRetailPrice = FALSE
    /\ fetchedLevels = <<>>
    /\ locationsData = <<>>
    /\ totalQuantity = 0
    /\ fCalls = NoFetchCalls
    /\ fFailures = 0
    /\ fFailed = {}
    /\ fNoAddress = {}
    /\ fResult = "pending"

\* The fetcher at rest, for the other specifications.
FetchIdle ==
    /\ up = [inactive |-> "false", priceRef |-> FALSE, currency |-> "absent",
             levels |-> <<>>, locRef |-> FALSE, locCount |-> 0]
    /\ fScript = "inventory"
    /\ fPc = "idle"
    /\ fIdx = 0
    /\ priceData = DefaultPriceData
    /\ hasTradePrice = FALSE
    /\ hasRetailPrice = FALSE
    /\ fetchedLevels = <<>>
    /\ locationsData = <<>>
    /\ totalQuantity = 0
    /\ fCalls = NoFetchCalls
    /\ fFailures = 0
    /\ fFailed = {}
    /\ fNoAddress = {}
    /\ fResult = "pending"

\* A fetch of an item without a location reference, with any price list.
PriceInit ==
    /\ up \in [inactive : InactiveFlags, priceRef : BOOLEAN, currency : CurrencyRefs,
               levels : PriceLists, locRef : {FALSE}, locCount : {0}]
    /\ fScript \in FetchScripts
    /\ FetchLocalsInit

\* ------------------------------------------------------------------------
\* Record fetcher: actions (one per upstream call)
\* ------------------------------------------------------------------------
\* Mutant of BaseFailureResult: the error of the base request escapes.
BaseFailureThrows(script) == "thrown"

\* catch (error) { ...; return null; } in fetchInventoryItemDetail;
\* catch (error) { ...; throw new Error(...) } in fetchInventoryItemById.
BaseFailureResult(script) == IF script = "single" THEN "thrown" ELSE "null"

\* if (response.data.locations?.links?.length) ... else return the record.
ToLocations ==
    /\ fPc' = IF up.locRef THEN "locList" ELSE "done"
    /\ fResult' = IF up.locRef THEN "pending" ELSE "record"

\* The base record request.  A failure makes fetchInventoryItemDetail return
\* null and fetchInventoryItemById throw; an inactive record ends the fetch
\* of the inventory script at once; otherwise the price reference decides.
FetchBase(ok) ==
    /\ fPc = "base"
    /\ fCalls' = FetchCalled("base")
    /\ IF ~ok
       THEN /\ fPc' = "done"
            /\ fResult' = BaseFailureResult(fScript)
       ELSE IF fScript = "inventory" /\ up.inactive = "true"
       THEN fPc' = "done" /\ fResult' = "record"
       ELSE IF up.priceRef
       THEN fPc' = "priceList" /\ fResult' = "pending"
       ELSE ToLocations
    /\ UNCHANGED <<up, fScript, fIdx, priceData, hasTradePrice, hasRetailPrice,
                   fetchedLevels, locationsData, totalQuantity, fFailures>>
    /\ fFailed' = IF ok THEN fFailed ELSE fFailed \cup {"base"}
    /\ UNCHANGED fNoAddress
    /\ UNCHANGED <<clientVars, pageVars, storeVars, runVars, moveVars, fnVars, batchVars>>

\* The price list request of fetchPriceInformation.  A failure returns the
\* default price data; the single-item script does so for an empty list too.
FetchPriceList(ok) ==
    /\ fPc = "priceList"
    /\ fCalls' = FetchCalled("priceList")
    /\ IF ~ok \/ (fScript = "single" /\ up.levels = <<>>)
       THEN /\ priceData' = DefaultPriceData
            /\ ToLocations
       ELSE /\ priceData' = [DefaultPriceData EXCEPT
                                !.currency = InitialCurrency(fScript, up.currency)]
            /\ fPc' = "priceLoop"
            /\ UNCHANGED fResult
    /\ UNCHANGED <<up, fScript, fIdx, hasTradePrice, hasRetailPrice,
                   fetchedLevels, locationsData, totalQuantity, fFailures>>
    /\ fFailed' = IF ok THEN fFailed ELSE fFailed \cup {"priceList"}
    /\ UNCHANGED fNoAddress
    /\ UNCHANGED <<clientVars, pageVars, storeVars, runVars, moveVars, fnVars, batchVars>>

\* One price detail request of the loop: without data the entry is passed
\* over, with data the level is applied.
FetchPriceDetail(ok) ==
    LET detail == up.levels[fIdx + 1] IN
    /\ fPc = "priceLoop"
    /\ ~PriceLoopOver
    /\ fCalls' = FetchCalled("priceDetail")
    /\ fIdx' = fIdx + 1
    /\ IF ok
       THEN /\ priceData' = ApplyLevel(priceData, detail)
            /\ fetchedLevels' = Append(fetchedLevels, detail)
            /\ hasTradePrice' = (hasTradePrice \/ detail.priceLevelName = "WLP (Base)")
            /\ hasRetailPrice' = (hasRetailPrice \/ detail.priceLevelName = "LPCP (HKD)")
       ELSE UNCHANGED <<priceData, fetchedLevels, hasTradePrice, hasRetailPrice>>
    /\ UNCHANGED <<up, fScript, fPc, locationsData, totalQuantity, fFailures, fResult>>
    /\ fFailed' = IF ok THEN fFailed ELSE fFailed \cup {"priceDetail"}
    /\ UNCHANGED fNoAddress
    /\ UNCHANGED <<clientVars, pageVars, storeVars, runVars, moveVars, fnVars, batchVars>>

\* The price loop is over: the display price falls back to the trade price
\* and fetchPriceInformation returns.
PriceDone ==
    /\ fPc = "priceLoop"
    /\ PriceLoopOver
    /\ priceData' = FinalPrice(fScript, priceData)
    /\ ToLocations
    /\ UNCHANGED <<up, fScript, fIdx, hasTradePrice, hasRetailPrice, fetchedLevels,
                   locationsData, totalQuantity, fCalls, fFailures>>
    /\ UNCHANGED fFailed
    /\ UNCHANGED fNoAddress
    /\ UNCHANGED <<clientVars, pageVars, storeVars, runVars, moveVars, fnVars, batchVars>>

NextPrice ==
    \/ \E ok \in BOOLEAN : FetchBase(ok)
    \/ \E ok \in BOOLEAN : FetchPriceList(ok)
    \/ \E ok \in BOOLEAN : FetchPriceDetail(ok)
    \/ PriceDone

\* ------------------------------------------------------------------------
\* Record fetcher: properties of the price resolution
\* ------------------------------------------------------------------------
\* The positions of the fetched price details with the level name `name`.
LevelsNamed(name) ==
    {i \in DOMAIN fetchedLevels : fetchedLevels[i].priceLevelName = name}

\* The price of the fetched detail named `name`, 0 when there is none.
LevelPrice(name) ==
    IF LevelsNamed(name) = {} THEN 0
    ELSE fetchedLevels[CHOOSE i \in LevelsNamed(name) : TRUE].price

\* The fetch has returned a record.
FetchReturnedRecord == fPc = "done" /\ fResult = "record"

\* C11: when the fetched price details hold at most one "WLP (Base)" and at
\* most one "LPCP (HKD)" level, tradePrice is the WLP price (0 if absent),
\* retailPrice is the LPCP price (0 if absent), and the display price is the
\* LPCP price with currency HKD whenever an LPCP level is present, otherwise
\* the trade price.
C11_PriceSelection ==
    (/\ FetchReturnedRecord
     /\ Cardinality(LevelsNamed("WLP (Base)")) <= 1
     /\ Cardinality(LevelsNamed("LPCP (HKD)")) <= 1) =>
        /\ priceData.tradePrice = LevelPrice("WLP (Base)")
        /\ priceData.retailPrice = LevelPrice("LPCP (HKD)")
        /\ IF LevelsNamed("LPCP (HKD)") # {}
           THEN /\ priceData.price = LevelPrice("LPCP (HKD)")
                /\ priceData.currency = "HKD"
           ELSE priceData.price = priceData.tradePrice

\* C12: a fetch that returned a record without any price detail with data
\* (empty price list, no price reference, failed list or detail requests)
\* resolves the display price 0 and the currency "HKD", whatever currency the
\* base record names.
C12_PriceDefault ==
    (FetchReturnedRecord /\ fetchedLevels = <<>>) =>
        (priceData.price = 0 /\ priceData.currency = "HKD")

\* A detail of the level named n has been fetched with data.
Resolved(n) == \E i \in 1..Len(fetchedLevels) : fetchedLevels[i].priceLevelName = n

\* C31: the price-detail calls of a fetch are issued one per entry of the
\* price list, in list order, and none is issued once both the "WLP (Base)"
\* and the "LPCP (HKD)" level have been resolved.
C31_PriceScanShortCircuit ==
    [][fCalls'.priceDetail # fCalls.priceDetail =>
          /\ fCalls'.priceDetail = fCalls.priceDetail + 1
          /\ fIdx' = fIdx + 1
          /\ fCalls'.priceDetail = fIdx'
          /\ ~(Resolved("WLP (Base)") /\ Resolved("LPCP (HKD)"))]_vars

\* ------------------------------------------------------------------------
\* Record fetcher: the location functions
\* ------------------------------------------------------------------------
\* The lengths of the upstream's location list of an item.
LocationCounts == {0, 2, 51}

\* The positions of the location list whose detail request can fail.
FailablePositions == {1, 2, 50, 51}

\* The price lists used where the locations are the subject.
FetchPriceLists ==
    {<<>>, <<[priceLevelName |-> "WLP (Base)", price |-> 100],
              [priceLevelName |-> "LPCP (HKD)", price |-> 120]>>}

\* locationsResponse.items.slice(0, MAX_LOCATIONS) in the single-item script;
\* the inventory scripts walk the whole of response.data.items.
LocationsToFetch(script, n) ==
    IF script = "single" THEN Min(n, MaxLocationsCap) ELSE n

\* A fetch of any item, with a short or an empty price list.
FetchInit ==
    /\ up \in [inactive : InactiveFlags, priceRef : BOOLEAN, currency : {"absent"},
               levels : FetchPriceLists, locRef : BOOLEAN, locCount : LocationCounts]
    /\ fScript \in FetchScripts
    /\ FetchLocalsInit

\* The location list request of fetchItemLocations: a failure or an empty
\* list returns [], and the caller sums over it.
FetchLocationList(ok) ==
    /\ fPc = "locList"
    /\ fCalls' = FetchCalled("locList")
    /\ fIdx' = 0
    /\ locationsData' = <<>>
    /\ IF ~ok \/ LocationsToFetch(fScript, up.locCount) = 0
       THEN /\ totalQuantity' = SumAvailable(<<>>)
            /\ fPc' = "done"
            /\ fResult' = "record"
       ELSE /\ fPc' = "locLoop"
            /\ UNCHANGED <<totalQuantity, fResult>>
    /\ UNCHANGED <<up, fScript, priceData, hasTradePrice, hasRetailPrice,
                   fetchedLevels, fFailures>>
    /\ fFailed' = IF ok THEN fFailed ELSE fFailed \cup {"locList"}
    /\ UNCHANGED fNoAddress
    /\ UNCHANGED <<clientVars, pageVars, storeVars, runVars, moveVars, fnVars, batchVars>>

\* One location detail request of the inventory scripts' sequential loop:
\* `if (loc) locations.push(loc)`.
FetchLocationDetail(ok) ==
    /\ fPc = "locLoop"
    /\ fScript # "single"
    /\ fIdx < LocationsToFetch(fScript, up.locCount)
    /\ ok \/ fIdx + 1 \in FailablePositions
    /\ fCalls' = FetchCalled("locDetail")
    /\ fIdx' = fIdx + 1
    /\ IF ok
       THEN /\ locationsData' = Append(locationsData, LocationDetails(fScript, fIdx + 1, TRUE))
            /\ UNCHANGED fFailures
       ELSE /\ fFailures' = fFailures + 1
            /\ UNCHANGED locationsData
    /\ UNCHANGED <<up, fScript, fPc, priceData, hasTradePrice, hasRetailPrice,
                   fetchedLevels, totalQuantity, fResult>>
    /\ fFailed' = IF ok THEN fFailed ELSE fFailed \cup {"locDetail"}
    /\ UNCHANGED fNoAddress
    /\ UNCHANGED <<clientVars, pageVars, storeVars, runVars, moveVars, fnVars, batchVars>>

\* One batch of the single-item script: RATE_LIMIT_CONFIG.batchSize detail
\* requests at once through Promise.all, the non-null results pushed in order.
\* oks: the positions whose detail request answers; addrs: those of them whose
\* address request answers too.
FetchLocationBatch(oks, addrs) ==
    LET toFetch == LocationsToFetch(fScript, up.locCount)
        batch   == {i \in (fIdx + 1)..Min(fIdx + RateLimitBatchSize, toFetch) : TRUE}
        first   == fIdx + 1
        got     == [i \in 1..Cardinality(oks) |->
                       LET j == CHOOSE j \in oks :
                                     Cardinality({k \in oks : k < j}) = i - 1
                       IN LocationDetails(fScript, j, j \in addrs)]
    IN
    /\ fPc = "locLoop"
    /\ fScript = "single"
    /\ fIdx < toFetch
    /\ oks \subseteq batch
    /\ (batch \ oks) \subseteq FailablePositions
    /\ addrs \subseteq oks
    /\ (oks \ addrs) \subseteq FailablePositions
    /\ fCalls' = [fCalls EXCEPT !.locDetail = @ + Cardinality(batch)]
    /\ fIdx' = fIdx + Cardinality(batch)
    /\ locationsData' = locationsData \o got
    /\ fFailures' = fFailures + Cardinality(batch \ oks)
    /\ UNCHANGED <<up, fScript, fPc, priceData, hasTradePrice, hasRetailPrice,
                   fetchedLevels, totalQuantity, fResult>>
    /\ fFailed' = IF batch \subseteq oks THEN fFailed ELSE fFailed \cup {"locDetail"}
    /\ fNoAddress' = fNoAddress \cup (oks \ addrs)
    /\ UNCHANGED <<clientVars, pageVars, storeVars, runVars, moveVars, fnVars, batchVars>>

\* The location loop is over: the total is summed and the record returned.
LocationsDone ==
    /\ fPc = "locLoop"
    /\ fIdx >= LocationsToFetch(fScript, up.locCount)
    /\ totalQuantity' = SumAvailable(locationsData)
    /\ fPc' = "done"
    /\ fResult' = "record"
    /\ UNCHANGED <<up, fScript, fIdx, priceData, hasTradePrice, hasRetailPrice,
                   fetchedLevels, locationsData, fCalls, fFailures>>
    /\ UNCHANGED fFailed
    /\ UNCHANGED fNoAddress
    /\ UNCHANGED <<clientVars, pageVars, storeVars, runVars, moveVars, fnVars, batchVars>>

NextFetch ==
    \/ \E ok \in BOOLEAN : FetchBase(ok)
    \/ \E ok \in BOOLEAN : FetchPriceList(ok)
    \/ \E ok \in BOOLEAN : FetchPriceDetail(ok)
    \/ PriceDone
    \/ \E ok \in BOOLEAN : FetchLocationList(ok)
    \/ \E ok \in BOOLEAN : FetchLocationDetail(ok)
    \/ \E oks \in SUBSET ((fIdx + 1)..(fIdx + RateLimitBatchSize)) :
          \E addrs \in SUBSET oks : FetchLocationBatch(oks, addrs)
    \/ LocationsDone

\* ------------------------------------------------------------------------
\* Movement pass: the join and the writes (SpecMove)
\* ------------------------------------------------------------------------
\* The stored ids of the pass.
MoveIds == {1, 2, 3}

\* batchSize of the request.
MoveBatchSizes == {1, 2, 3}

\* A date that is null.
NullDate == [year |-> 0, month |-> 0, day |-> 0]

\* The rows of the SuiteQL answer, without item_id: moved_last_12_months and
\* last_movement_date as the parts of DD/MM/YYYY (<<>> for null).
MovementRows ==
    {[moved |-> 1, date |-> <<15, 6, 2026>>],
     [moved |-> 0, date |-> <<3, 2, 2020>>],
     [moved |-> 0, date |-> <<>>]}

\* parseNetSuiteDate: new Date(year, month - 1, day) from DD/MM/YYYY.
ParseNetSuiteDate(parts) ==
    IF Len(parts) = 3
    THEN [year |-> parts[3], month |-> parts[2] - 1, day |-> parts[1]]
    ELSE NullDate

\* movementMap.set(itemId, { last_movement_date: moved ? lastMovementDate : null,
\*                           moved_last_12_months: moved })
MovementMapEntry(row) ==
    LET moved == row.moved = 1
        lastMovementDate == IF row.date # <<>> THEN ParseNetSuiteDate(row.date)
                            ELSE NullDate
    IN [last_movement_date   |-> IF moved THEN lastMovementDate ELSE NullDate,
        moved_last_12_months |-> moved]

\* The $set of the updateOne for itemId: the entry of the map, or null and
\* false for an id the answer does not hold.
MovementSet(result, itemId) ==
    IF itemId \in DOMAIN result
    THEN MovementMapEntry(result[itemId])
    ELSE [last_movement_date |-> NullDate, moved_last_12_months |-> FALSE]

\* The paths inventoryItemSchema declares (those the model keeps) and the
\* timestamps; last_movement_date and moved_last_12_months are not among them.
SchemaPaths == DOMAIN NewInventoryItem(0, 0)

\* The schema sets no `strict` option, so the cast of an update drops the
\* paths the schema does not declare.
CastToSchema(upd) == [f \in (DOMAIN upd) \cap SchemaPaths |-> upd[f]]

MoveIdle ==
    /\ mvPc = "idle"
    /\ mvBatchSize = NoValue
    /\ mvMaxItems = NoValue
    /\ mvTotal = 0
    /\ mvOffset = 0
    /\ mvProcessed = 0
    /\ mvBatch = {}
    /\ mvResult = <<>>
    /\ mvQueryOk = FALSE
    /\ mvPending = {}
    /\ mvErrors = {}
    /\ mvBatchErrors = 0
    /\ mvAssigned = [i \in MoveIds |-> 0]

\* The collection before a pass: documents of earlier syncs.
MoveInit ==
    /\ store \in {{NewInventoryItem(i, 0) : i \in S} : S \in SUBSET MoveIds}
    /\ orders = {}
    /\ now \in 0..MaxClock
    /\ lastWrite = NoWrite
    /\ repeated = FALSE
    /\ writes = 0
    /\ MoveIdle

\* if (totalCount === 0) return res.json({ success: true, processed: 0, ... })
MoveEmpty ==
    /\ mvPc = "idle"
    /\ store = {}
    /\ mvPc' = "done"
    /\ UNCHANGED <<mvBatchSize, mvMaxItems, mvTotal, mvOffset, mvProcessed,
                   mvBatch, mvResult, mvQueryOk, mvPending, mvErrors,
                   mvBatchErrors, mvAssigned>>
    /\ UNCHANGED <<clientVars, pageVars, storeVars, runVars, fetchVars, fnVars, batchVars>>

\* The request arrives with batchSize n and maxItems mx: countDocuments, and
\* the counters of the loop.
MoveStart(n, mx) ==
    /\ mvPc = "idle"
    /\ store # {}
    /\ mvBatchSize' = n
    /\ mvMaxItems' = mx
    /\ mvTotal' = Cardinality(store)
    /\ mvPc' = "find"
    /\ UNCHANGED <<mvOffset, mvProcessed, mvBatch, mvResult, mvQueryOk,
                   mvPending, mvErrors, mvBatchErrors, mvAssigned>>
    /\ UNCHANGED <<clientVars, pageVars, storeVars, runVars, fetchVars, fnVars, batchVars>>

\* const limit = maxItems ? Math.min(batchSize, maxItems) : batchSize;
MoveLimit(n, mx) == IF mx # NoValue THEN Min(n, mx) ELSE n

\* const itemsToProcess = maxItems
\*     ? Math.min(limit, maxItems - processedCount) : limit;
MoveItemsToProcess(limit, mx, processed) ==
    IF mx # NoValue THEN Min(limit, mx - processed) ELSE limit

\* The documents find() returns, in the order the collection keeps them (the
\* same for every find of a pass; here by internalId).
RECURSIVE InOrder(_)
InOrder(keys) ==
    IF keys = {} THEN <<>>
    ELSE LET k == CHOOSE x \in keys : \A y \in keys : x <= y
         IN <<k>> \o InOrder(keys \ {k})

\* Mutant of FindSkipLimit: find().limit(n), the skip left out.
FindWithoutSkip(coll, off, n) ==
    LET all == InOrder(Keys(coll))
    IN {all[i] : i \in {j \in DOMAIN all : j <= n}}

\* find().skip(off).limit(n): the internalIds of the documents returned.
FindSkipLimit(coll, off, n) ==
    LET all == InOrder(Keys(coll))
    IN {all[i] : i \in {j \in DOMAIN all : off < j /\ j <= off + n}}

\* offset += items.length;
MoveAdvance(off, received, asked) == off + received

\* The top of the loop: the maxItems test, then
\* InventoryItem.find().select('internalId').skip(offset).limit(n).lean() and
\* the map to itemIds; no document ends the loop.
MoveFindBatch ==
    LET want == MoveItemsToProcess(MoveLimit(mvBatchSize, mvMaxItems),
                                   mvMaxItems, mvProcessed)
        ids  == FindSkipLimit(store, mvOffset, want)
    IN
    /\ mvPc = "find"
    /\ IF (mvMaxItems # NoValue /\ mvProcessed >= mvMaxItems) \/ ids = {}
       THEN mvPc' = "done" /\ UNCHANGED mvBatch
       ELSE mvPc' = "query" /\ mvBatch' = ids
    /\ mvResult' = <<>>
    /\ mvQueryOk' = FALSE
    /\ UNCHANGED <<mvBatchSize, mvMaxItems, mvTotal, mvOffset, mvProcessed,
                   mvPending, mvErrors, mvBatchErrors, mvAssigned>>
    /\ UNCHANGED <<clientVars, pageVars, storeVars, runVars, fetchVars, fnVars, batchVars>>

\* fetchMovementDataForItems(itemIds): the rows of some of the ids, or the
\* request fails and the batch ends in catch (batchError): offset += limit;
\* if (offset >= totalCount) hasMore = false.
MoveQuery(ok, result) ==
    /\ mvPc = "query"
    /\ IF ok
       THEN /\ DOMAIN result \subseteq mvBatch
            /\ mvResult' = result
            /\ mvQueryOk' = TRUE
            /\ mvPending' = mvBatch
            /\ mvPc' = "update"
            /\ UNCHANGED <<mvOffset, mvBatchErrors>>
       ELSE /\ result = <<>>
            /\ mvBatchErrors' = mvBatchErrors + 1
            /\ mvOffset' = mvOffset + MoveLimit(mvBatchSize, mvMaxItems)
            /\ mvPc' = IF mvOffset' >= mvTotal THEN "done" ELSE "find"
            /\ UNCHANGED <<mvResult, mvQueryOk, mvPending>>
    /\ UNCHANGED <<mvBatchSize, mvMaxItems, mvTotal, mvProcessed, mvBatch,
                   mvErrors, mvAssigned>>
    /\ UNCHANGED <<clientVars, pageVars, storeVars, runVars, fetchVars, fnVars, batchVars>>

\* One of the updatePromises settles: InventoryItem.updateOne({ internalId },
\* { $set: ... }), or its catch (updateError).
MoveUpdate(itemId, ok) ==
    /\ mvPc = "update"
    /\ itemId \in mvPending
    /\ mvPending' = mvPending \ {itemId}
    /\ IF ok
       THEN /\ store' = UpdateOne(store, itemId,
                                  CastToSchema(MovementSet(mvResult, itemId)), now)
            /\ mvAssigned' = [mvAssigned EXCEPT ![itemId] = @ + 1]
            /\ UNCHANGED mvErrors
       ELSE /\ mvErrors' = mvErrors \cup {itemId}
            /\ UNCHANGED <<store, mvAssigned>>
    /\ UNCHANGED <<mvPc, mvBatchSize, mvMaxItems, mvTotal, mvOffset, mvProcessed,
                   mvBatch, mvResult, mvQueryOk, mvBatchErrors>>
    /\ UNCHANGED <<orders, now, lastWrite, repeated, writes>>
    /\ UNCHANGED <<clientVars, pageVars, runVars, fetchVars, fnVars, batchVars>>

\* await Promise.all(updatePromises) returns: processedCount += items.length;
\* offset += items.length; hasMore = items.length === itemsToProcess &&
\* (!maxItems || processedCount < maxItems).
MoveFinish ==
    LET want     == MoveItemsToProcess(MoveLimit(mvBatchSize, mvMaxItems),
                                       mvMaxItems, mvProcessed)
        received == Cardinality(mvBatch)
    IN
    /\ mvPc = "update"
    /\ mvPending = {}
    /\ mvProcessed' = mvProcessed + received
    /\ mvOffset' = MoveAdvance(mvOffset, received, want)
    /\ mvPc' = IF received = want /\ (mvMaxItems = NoValue \/ mvProcessed' < mvMaxItems)
               THEN "find" ELSE "done"
    /\ UNCHANGED <<mvBatchSize, mvMaxItems, mvTotal, mvBatch, mvResult, mvQueryOk,
                   mvPending, mvErrors, mvBatchErrors, mvAssigned>>
    /\ UNCHANGED <<clientVars, pageVars, storeVars, runVars, fetchVars, fnVars, batchVars>>

\* The answers of the upstream to a batch: rows for some of its ids.
MovementResults(ids) == UNION {[S -> MovementRows] : S \in SUBSET ids}

\* maxItems of the request.
MoveMaxItems == {NoValue, 1, 2}

NextMove ==
    \/ MoveEmpty
    \/ \E n \in MoveBatchSizes, mx \in MoveMaxItems : MoveStart(n, mx)
    \/ MoveFindBatch
    \/ \E result \in MovementResults(mvBatch) : MoveQuery(TRUE, result)
    \/ MoveQuery(FALSE, <<>>)
    \/ \E itemId \in MoveIds, ok \in BOOLEAN : MoveUpdate(itemId, ok)
    \/ MoveFinish

\* ------------------------------------------------------------------------
\* Movement pass: properties
\* ------------------------------------------------------------------------
\* The movement a stored document reads back as; a document without the
\* fields reads as no movement.
StoredMovement(d) ==
    IF "moved_last_12_months" \in DOMAIN d
    THEN [last_movement_date   |-> d.last_movement_date,
          moved_last_12_months |-> d.moved_last_12_months]
    ELSE [last_movement_date |-> NullDate, moved_last_12_months |-> FALSE]

\* C14: after a movement pass over a batch whose upstream query succeeded,
\* every id of the batch that the answer does not hold is stored with
\* movedLast12Months = false and lastMovementDate = null, and every id the
\* answer holds is stored with the joined value.
C14_MovementJoin ==
    (mvPc = "done" /\ mvQueryOk) =>
        \A itemId \in mvBatch \ mvErrors :
            \A d \in Matching(store, itemId) :
                StoredMovement(d) = MovementSet(mvResult, itemId)

\* The pass has returned with no batch and no update having failed.
PassDoneClean == mvPc = "done" /\ mvBatchErrors = 0 /\ mvErrors = {}

\* C38: the movement pass always returns; when no batch and no update failed
\* and maxItems is unset, it has then issued exactly one movement update for
\* every stored id and processed as many records as the collection holds;
\* with maxItems set, processed never exceeds maxItems.
C38_MovementCoverage ==
    /\ <>(mvPc = "done")
    /\ [](PassDoneClean /\ mvMaxItems = NoValue =>
            /\ \A d \in store : mvAssigned[d.internalId] = 1
            /\ \A i \in MoveIds \ Keys(store) : mvAssigned[i] = 0
            /\ mvProcessed = Cardinality(store))
    /\ [](mvMaxItems # NoValue => mvProcessed <= mvMaxItems)
    /\ [](\A i \in MoveIds : mvAssigned[i] <= 1)

\* A clean pass over three stored records in batches of two: two batches,
\* three updates, processed 3.
C38_Witness ==
    /\ PassDoneClean
    /\ mvMaxItems = NoValue /\ mvBatchSize = 2
    /\ Cardinality(store) = 3
    /\ mvProcessed = 3 /\ mvOffset = 3
    /\ \A i \in MoveIds : mvAssigned[i] = 1

\* ------------------------------------------------------------------------
\* Record fetcher: properties of the whole fetch
\* ------------------------------------------------------------------------
\* Only the base record was requested.
OnlyBaseCalled == fCalls = [NoFetchCalls EXCEPT !.base = 1]

\* C13: a fetch by fetchInventoryItemDetail of a base record whose inactive
\* flag is set makes the base request and no price-list, price-detail,
\* location-list or location-detail request, and returns price 0, no
\* locations and totalQuantity 0.
C13_InactiveShortCircuit ==
    (FetchReturnedRecord /\ fScript \in {"inventory", "legacy"}
        /\ up.inactive = "true") =>
        /\ OnlyBaseCalled
        /\ priceData.price = 0
        /\ locationsData = <<>>
        /\ totalQuantity = 0

\* C17: in every script the number of location detail requests of a fetch,
\* and the number of locations of the fetched record, is at most 50.
C17_LocationCap ==
    /\ fCalls.locDetail <= MaxLocationsCap
    /\ Len(locationsData) <= MaxLocationsCap

\* C18: fetchInventoryItemDetail never throws; it returns null exactly when
\* the base request failed, and otherwise a record: with the default price
\* data when the price list request failed, and with one location less for
\* every failed location detail request.
C18_FetcherBoundary ==
    (fPc = "done" /\ fScript \in {"inventory", "legacy"}) =>
        /\ fResult \in {"null", "record"}
        /\ (fResult = "null") = ("base" \in fFailed)
        /\ fResult = "null" => OnlyBaseCalled
        /\ (fResult = "record" /\ "priceList" \in fFailed) =>
              priceData = DefaultPriceData
        /\ (fResult = "record" /\ fCalls.locList = 1 /\ "locList" \notin fFailed) =>
              Len(locationsData) = up.locCount - fFailures
        /\ (fResult = "record" /\ "locList" \in fFailed) => locationsData = <<>>

\* A fetch that returned a record although the price list request and a
\* location detail request failed: default price data, one location short.
C18_Witness ==
    /\ fPc = "done" /\ fScript = "inventory"
    /\ fResult = "record"
    /\ {"priceList", "locDetail"} \subseteq fFailed
    /\ up.locCount = 2
    /\ Len(locationsData) = 1
    /\ priceData = DefaultPriceData

\* The entry of locationsData for the upstream's location number j.
EntriesOf(j) == {k \in 1..Len(locationsData) : locationsData[k].locationId = j}

\* C25: a location of the single-item script whose detail request answered
\* and whose address request failed is in the record's locations, once, with
\* the upstream's quantityOnHand and quantityAvailable and with address, city,
\* country and zip empty; the fetch still returns a record.
C25_PartialLocationEnrichment ==
    /\ \A j \in fNoAddress :
          /\ Cardinality(EntriesOf(j)) = 1
          /\ \A k \in EntriesOf(j) :
                /\ locationsData[k].quantityOnHand = UpLocation(j).quantityOnHand
                /\ locationsData[k].quantityAvailable = UpLocation(j).quantityAvailable
                /\ locationsData[k].address = "" /\ locationsData[k].city = ""
                /\ locationsData[k].country = "" /\ locationsData[k].zip = ""
    /\ (fPc = "done" /\ fNoAddress # {}) =>
          (fResult = "record" /\ totalQuantity = SumAvailable(locationsData))

\* A fetch of two locations: the address of the second failed, and the record
\* holds both, the first with its address, the second with its quantities only.
C25_Witness ==
    /\ fPc = "done" /\ fScript = "single" /\ fResult = "record"
    /\ up.locCount = 2 /\ fNoAddress = {2} /\ fFailures = 0
    /\ Len(locationsData) = 2
    /\ locationsData[1].city = UpAddress.city
    /\ locationsData[2].city = ""
    /\ locationsData[2].quantityOnHand = 2 /\ locationsData[2].quantityAvailable = 2

\* ------------------------------------------------------------------------
\* The pure helpers of the scripts, applied once to a drawn argument
\* ------------------------------------------------------------------------
FnIdle ==
    /\ fnName = "none"
    /\ fnArg = NoValue
    /\ fnOut = NoValue
    /\ fnDone = FALSE

\* A helper returns: its result is recorded.
Returns(name, result) ==
    /\ fnName = name
    /\ ~fnDone
    /\ fnOut' = result
    /\ fnDone' = TRUE
    /\ UNCHANGED <<fnName, fnArg>>
    /\ UNCHANGED <<clientVars, pageVars, storeVars, runVars, fetchVars, moveVars, batchVars>>

\* --- the report of a run ---

\* errors.slice(0, 50)
ErrorReportLimit == 50

\* Array.prototype.slice(from, to) with 0 <= from <= to
ArraySlice(s, from, to) == SubSeq(s, from + 1, Min(to, Len(s)))

\* The operations that answer with a report: the three modes of the inventory
\* sync script, the sales-order sync, the earlier inventory script, the
\* controller's sync and the movement pass.
ReportModes ==
    {"incremental", "sweep", "fromSalesOrders", "salesOrders", "legacy",
     "controller", "movement"}

\* The failures a run has collected: how many entries its errors array holds.
ErrorCounts == {0, 1, 49, 50, 51, 52}
ErrorsOfRun(n) == [i \in 1..n |-> i]

\* The report's failure count and error list.  syncAllInventory and the
\* movement pass slice the list; syncInventory, syncInventoryFromSalesOrders,
\* the earlier script and the controller return the whole array; syncSalesOrders
\* returns no list.  (`errors.length > 0 ? ... : undefined`: no list is the
\* empty list.)
BuildReport(m, errs) ==
    [failed |-> Len(errs),
     errors |-> CASE m \in {"sweep", "movement"} -> ArraySlice(errs, 0, ErrorReportLimit)
                  [] m = "salesOrders" -> <<>>
                  [] OTHER -> errs]

ReportArgs == [mode : ReportModes, errs : {ErrorsOfRun(n) : n \in ErrorCounts}]

ApplyBuildReport == Returns("buildReport", BuildReport(fnArg.mode, fnArg.errs))

\* C24: in every mode the error list of the report holds at most the
\* reporting limit (50) of entries, and the failed count is the number of
\* failures the run collected.
C24_ErrorListCapped ==
    (fnName = "buildReport" /\ fnDone) =>
        /\ Len(fnOut.errors) <= ErrorReportLimit
        /\ fnOut.failed = Len(fnArg.errs)

\* --- numeric coercion ---

\* A JavaScript number: a finite decimal m / 10^scale, NaN, or an infinity
\* (m is then its sign).
Finite(m, scale) == [kind |-> "finite", m |-> m, scale |-> scale]
NaN == [kind |-> "nan", m |-> 0, scale |-> 0]
Infinite(sign) == [kind |-> "infinite", m |-> sign, scale |-> 0]
Zero == Finite(0, 0)
IsFinite(n) == n.kind = "finite"

\* A string is the sequence of its characters.
Digits == {"0", "1", "2", "3", "4", "5", "6", "7", "8", "9"}
DigitValue(c) ==
    CASE c = "0" -> 0 [] c = "1" -> 1 [] c = "2" -> 2 [] c = "3" -> 3
      [] c = "4" -> 4 [] c = "5" -> 5 [] c = "6" -> 6 [] c = "7" -> 7
      [] c = "8" -> 8 [] c = "9" -> 9
WhiteSpace == {" ", "\t", "\n"}

IsPrefix(p, str) == Len(p) <= Len(str) /\ SubSeq(str, 1, Len(p)) = p
Drop(str, n) == SubSeq(str, n + 1, Len(str))

RECURSIVE TrimStart(_)
TrimStart(str) ==
    IF str # <<>> /\ Head(str) \in WhiteSpace THEN TrimStart(Tail(str)) ELSE str

\* The longest prefix of digits.
RECURSIVE DigitPrefix(_)
DigitPrefix(str) ==
    IF str # <<>> /\ Head(str) \in Digits
    THEN <<Head(str)>> \o DigitPrefix(Tail(str))
    ELSE <<>>

\* The value of a sequence of digits (0 for none).
RECURSIVE DigitsValue(_)
DigitsValue(ds) ==
    IF ds = <<>> THEN 0
    ELSE 10 * DigitsValue(SubSeq(ds, 1, Len(ds) - 1)) + DigitValue(ds[Len(ds)])

InfinityLiteral == <<"I", "n", "f", "i", "n", "i", "t", "y">>

\* parseFloat: leading white space is skipped, then the longest prefix that is
\* a decimal literal is taken: a sign, then "Infinity" or digits with an
\* optional fraction; what follows is ignored; NaN when there is no such
\* prefix.  (The strings drawn hold no exponent part.)
ParseFloat(str) ==
    LET t      == TrimStart(str)
        signed == t # <<>> /\ Head(t) \in {"+", "-"}
        sign   == IF signed /\ Head(t) = "-" THEN -1 ELSE 1
        body   == IF signed THEN Tail(t) ELSE t
        ip     == DigitPrefix(body)
        rest   == Drop(body, Len(ip))
        fp     == IF rest # <<>> /\ Head(rest) = "." THEN DigitPrefix(Tail(rest)) ELSE <<>>
    IN IF IsPrefix(InfinityLiteral, body) THEN Infinite(sign)
       ELSE IF ip = <<>> /\ fp = <<>> THEN NaN
       ELSE Finite(sign * DigitsValue(ip \o fp), Len(fp))

\* A value of a field of the upstream's JSON: t is "absent" (no such key),
\* "undefined", "null", "number" (n), "string" (s), "boolean" or "object".
JsValue(t, n, str) == [t |-> t, n |-> n, s |-> str]
JsOther(t) == JsValue(t, Zero, <<>>)
JsNumber(n) == JsValue("number", n, <<>>)
JsString(str) == JsValue("string", Zero, str)

\* extractNumericValue(data, fieldName), with value the field of that name in
\* data: 0.0 unless the field is a number, returned as it is, or a string,
\* returned parsed when parseFloat does not answer NaN.
ExtractNumericValue(data, value) ==
    IF data # "null" /\ value.t # "absent"
    THEN IF value.t \in {"null", "undefined"} THEN Zero
         ELSE IF value.t = "number" THEN value.n
         ELSE IF value.t = "string"
              THEN LET parsed == ParseFloat(value.s)
                   IN IF parsed.kind = "nan" THEN Zero ELSE parsed
         ELSE Zero
    ELSE Zero

Str_abc == <<"a", "b", "c">>
Str_12_5 == <<"1", "2", ".", "5">>

\* The strings, numbers and other values a field is drawn from.
NumericStrings ==
    {Str_abc, Str_12_5, <<>>, <<"7">>, InfinityLiteral, <<"-">> \o InfinityLiteral,
     <<" ", "3">>, <<"1", "2", "a", "b", "c">>, <<"N", "a", "N">>, <<".", "5">>,
     <<"-", "4">>, <<"1", ".">>, <<"-">>, <<"0", "0", "7">>}
NumericNumbers ==
    {Finite(7, 0), Finite(125, 1), Zero, Finite(-3, 0), NaN, Infinite(1), Infinite(-1)}
FieldValues ==
    {JsOther(t) : t \in {"absent", "undefined", "null", "boolean", "object"}}
      \cup {JsNumber(n) : n \in NumericNumbers}
      \cup {JsString(str) : str \in NumericStrings}
NumericArgs == [data : {"null", "object"}, value : FieldValues]

ApplyExtractNumericValue ==
    Returns("extractNumericValue", ExtractNumericValue(fnArg.data, fnArg.value))

\* C27: numeric coercion always yields a finite number: 0 for a field that is
\* null, absent, the string "abc" or of another type than number and string,
\* 12.5 for "12.5", 7 for 7, and neither NaN nor an infinity for any input.
C27_CoercionFinite ==
    (fnName = "extractNumericValue" /\ fnDone) =>
        /\ IsFinite(fnOut)
        /\ fnArg.value.t \in {"absent", "undefined", "null", "boolean", "object"} =>
              fnOut = Zero
        /\ fnArg.value = JsString(Str_abc) => fnOut = Zero
        /\ (fnArg.data = "object" /\ fnArg.value = JsString(Str_12_5)) =>
              fnOut = Finite(125, 1)
        /\ (fnArg.data = "object" /\ fnArg.value = JsNumber(Finite(7, 0))) =>
              fnOut = Finite(7, 0)

\* --- date parsing ---

\* A result of a date parser: null, a Date holding a calendar day (month
\* 1..12), or a Date that is invalid (its time value is NaN).
NullResult == [kind |-> "null", year |-> 0, month |-> 0, day |-> 0]
InvalidDate == [kind |-> "invalid", year |-> 0, month |-> 0, day |-> 0]
DateOf(y, m, d) == [kind |-> "date", year |-> y, month |-> m, day |-> d]

IsLeap(y) == (y % 4 = 0 /\ y % 100 # 0) \/ y % 400 = 0
\* The days of month m0 (0..11) of year y.
DaysInMonth(y, m0) ==
    CASE m0 = 1 -> IF IsLeap(y) THEN 29 ELSE 28
      [] m0 \in {3, 5, 8, 10} -> 30
      [] OTHER -> 31

\* The calendar day of (year, month index, day of month) when the month index
\* or the day lies outside its range: months carry into years, days into months.
RECURSIVE MakeDay(_, _, _)
MakeDay(y, m0, d) ==
    CASE m0 > 11 -> MakeDay(y + 1, m0 - 12, d)
      [] m0 < 0  -> MakeDay(y - 1, m0 + 12, d)
      [] m0 \in 0..11 /\ d > DaysInMonth(y, m0) -> MakeDay(y, m0 + 1, d - DaysInMonth(y, m0))
      [] m0 \in 0..11 /\ d < 1 ->
            LET py == IF m0 = 0 THEN y - 1 ELSE y
                pm == IF m0 = 0 THEN 11 ELSE m0 - 1
            IN MakeDay(py, pm, d + DaysInMonth(py, pm))
      [] OTHER -> DateOf(y, m0 + 1, d)

\* new Date(year, monthIndex, day): invalid when an argument is NaN; a year
\* 0..99 is taken as 1900 + year.
NewDate(year, monthIndex, day) ==
    IF ~IsFinite(year) \/ ~IsFinite(monthIndex) \/ ~IsFinite(day) THEN InvalidDate
    ELSE MakeDay(IF year.m \in 0..99 THEN 1900 + year.m ELSE year.m, monthIndex.m, day.m)

\* parseInt(str, 10): white space, a sign, then the longest prefix of digits;
\* NaN when there is no digit.
ParseInt(str) ==
    LET t      == TrimStart(str)
        signed == t # <<>> /\ Head(t) \in {"+", "-"}
        sign   == IF signed /\ Head(t) = "-" THEN -1 ELSE 1
        ds     == DigitPrefix(IF signed THEN Tail(t) ELSE t)
    IN IF ds = <<>> THEN NaN ELSE Finite(sign * DigitsValue(ds), 0)

\* The characters before the first separator, and str.split(sep).
RECURSIVE UpTo(_, _)
UpTo(str, sep) ==
    IF str = <<>> \/ Head(str) = sep THEN <<>>
    ELSE <<Head(str)>> \o UpTo(Tail(str), sep)
RECURSIVE Split(_, _)
Split(str, sep) ==
    LET first == UpTo(str, sep)
    IN IF Len(first) = Len(str) THEN <<first>>
       ELSE <<first>> \o Split(Drop(str, Len(first) + 1), sep)

\* !dateString
Falsy(v) ==
    \/ v.t \in {"absent", "undefined", "null"}
    \/ v.t = "string" /\ v.s = <<>>
    \/ v.t = "number" /\ (v.n = Zero \/ v.n = NaN)

\* parseNetSuiteDate(dateString): null for a falsy argument; the Date of the
\* three parts when split('/') gives three; null otherwise, and null when the
\* body throws (split is no function of a value that is no string).
ParseNetSuiteDateString(v) ==
    IF Falsy(v) THEN NullResult
    ELSE IF v.t # "string" THEN NullResult
    ELSE LET parts == Split(v.s, "/")
         IN IF Len(parts) = 3
            THEN LET day   == ParseInt(parts[1])
                     month == IF IsFinite(ParseInt(parts[2]))
                              THEN Finite(ParseInt(parts[2]).m - 1, 0) ELSE NaN
                     year  == ParseInt(parts[3])
                 IN NewDate(year, month, day)
            ELSE NullResult

\* Date.parse of the date-only form YYYY-MM-DD: the day it names when the
\* month and the day are in range, NaN for every other string drawn.
IsoDate(str) ==
    IF /\ Len(str) = 10
       /\ \A i \in {1, 2, 3, 4, 6, 7, 9, 10} : str[i] \in Digits
       /\ str[5] = "-" /\ str[8] = "-"
    THEN LET y == DigitsValue(SubSeq(str, 1, 4))
             m == DigitsValue(SubSeq(str, 6, 7))
             d == DigitsValue(SubSeq(str, 9, 10))
         IN IF m \in 1..12 /\ d >= 1 /\ d <= DaysInMonth(y, m - 1)
            THEN DateOf(y, m, d) ELSE InvalidDate
    ELSE InvalidDate

\* parseDate(dateString) of the sales-order script: null for a falsy argument,
\* else new Date(dateString); the constructor does not throw, so the catch
\* is never entered.
ParseDate(v) ==
    IF Falsy(v) THEN NullResult
    ELSE IF v.t = "string" THEN IsoDate(v.s)
    ELSE InvalidDate

Str_15_03_2024 == <<"1", "5", "/", "0", "3", "/", "2", "0", "2", "4">>
Str_a_b_c == <<"a", "/", "b", "/", "c">>
Str_2024_03_15 == <<"2", "0", "2", "4", "-", "0", "3", "-", "1", "5">>

\* The arguments the DD/MM/YYYY parser is drawn with.
SlashDateStrings ==
    {Str_15_03_2024, Str_a_b_c, <<>>, <<"1", "5", "/", "0", "3">>,
     <<"1", "5", "-", "0", "3", "-", "2", "0", "2", "4">>,
     <<"1", "/", "2", "/", "3", "/", "4">>, <<"/", "/">>,
     <<"2", "9", "/", "0", "2", "/", "2", "0", "2", "4">>,
     <<"3", "1", "/", "1", "2", "/", "1", "9", "9", "9">>,
     <<"1", "/", "1", "/", "2", "0", "0", "0">>,
     <<"x", "x", "/", "0", "3", "/", "2", "0", "2", "4">>,
     Str_abc}
SlashDateArgs ==
    {JsOther(t) : t \in {"undefined", "null"}}
      \cup {JsString(str) : str \in SlashDateStrings}
      \cup {JsNumber(n) : n \in {Zero, Finite(20240315, 0)}}

\* The arguments the ISO parser is drawn with.
IsoDateStrings ==
    {Str_2024_03_15, <<>>, Str_abc, Str_a_b_c,
     <<"2", "0", "2", "4", "-", "1", "3", "-", "4", "5">>,
     <<"2", "0", "2", "4", "-", "0", "2", "-", "2", "9">>,
     <<"n", "o", "t", " ", "a", " ", "d", "a", "t", "e">>}
IsoDateArgs ==
    {JsOther(t) : t \in {"undefined", "null"}}
      \cup {JsString(str) : str \in IsoDateStrings}

\* The strings of the drawn arguments that name a calendar day.
WellFormedDates ==
    {Str_15_03_2024, Str_2024_03_15,
     <<"2", "9", "/", "0", "2", "/", "2", "0", "2", "4">>,
     <<"3", "1", "/", "1", "2", "/", "1", "9", "9", "9">>,
     <<"1", "/", "1", "/", "2", "0", "0", "0">>,
     <<"2", "0", "2", "4", "-", "0", "2", "-", "2", "9">>}

ApplyParseNetSuiteDate == Returns("parseNetSuiteDate", ParseNetSuiteDateString(fnArg))
ApplyParseDate == Returns("parseDate", ParseDate(fnArg))

\* C28: date parsing never throws and yields null for every absent, empty or
\* unparseable input: the DD/MM/YYYY parser maps "15/03/2024" to 2024-03-15 and
\* every malformed string, "a/b/c" included, to null; the ISO parser maps
\* every unparseable string to null, never to an invalid date.
C28_DateParsingTotal ==
    (fnName \in {"parseNetSuiteDate", "parseDate"} /\ fnDone) =>
        /\ fnOut.kind \in {"null", "date"}
        /\ Falsy(fnArg) => fnOut = NullResult
        /\ (fnArg.t = "string" /\ fnArg.s \notin WellFormedDates) => fnOut = NullResult
        /\ (fnName = "parseNetSuiteDate" /\ fnArg = JsString(Str_15_03_2024)) =>
              fnOut = DateOf(2024, 3, 15)

\* --- the lines of a sales order ---

\* The producer and the region the upstream holds for the item of line k.
UpProducer(k) == IF k % 2 = 1 THEN "Domaine A" ELSE "Domaine B"
UpRegion(k) == IF k % 2 = 1 THEN "Burgundy" ELSE "Rhone"

\* What the upstream answers for line k of the order: whether the line detail
\* request answers, whether the detail links an inventory item, and whether
\* the lookup of that item answers.
UpLine(k, detailOk, link, lookupOk) ==
    [line |-> k, itemId |-> 100 + k, detailOk |-> detailOk, link |-> link,
     lookupOk |-> lookupOk]

\* The line lists of an order, of at most MaxLines lines.
MaxLines == 2
LineLists ==
    UNION {[1..n -> BOOLEAN \X BOOLEAN \X BOOLEAN] : n \in 0..MaxLines}
UpLines(outcomes) ==
    [k \in DOMAIN outcomes |->
        UpLine(k, outcomes[k][1], outcomes[k][2], outcomes[k][3])]
OrderLineArgs ==
    [listOk : BOOLEAN, lines : {UpLines(o) : o \in LineLists}]

\* The line item pushed for a line whose detail answered: producer and region
\* stay "" unless the detail links an item and fetchInventoryItemDetails
\* returned it (it returns null when its request fails).
LineItem(l) ==
    LET found == l.link /\ l.lookupOk
    IN [itemId |-> l.itemId, line |-> l.line,
        producer |-> IF found THEN UpProducer(l.line) ELSE "",
        region   |-> IF found THEN UpRegion(l.line) ELSE ""]

\* A loop that leaves out the lines whose item lookup found nothing.
RECURSIVE PushFoundItems(_)
PushFoundItems(lines) ==
    IF lines = <<>> THEN <<>>
    ELSE (IF Head(lines).detailOk /\ Head(lines).link /\ Head(lines).lookupOk
          THEN <<LineItem(Head(lines))>> ELSE <<>>)
         \o PushFoundItems(Tail(lines))

\* for (const itemRef of response.data.items): a line whose detail request
\* fails is caught and left out, every other line is pushed.
RECURSIVE PushLineItems(_)
PushLineItems(lines) ==
    IF lines = <<>> THEN <<>>
    ELSE (IF Head(lines).detailOk THEN <<LineItem(Head(lines))>> ELSE <<>>)
         \o PushLineItems(Tail(lines))

\* fetchSalesOrderItems(salesOrderId): [] when the list request fails or the
\* list is empty.
FetchSalesOrderItems(listOk, lines) ==
    IF ~listOk \/ lines = <<>> THEN <<>> ELSE PushLineItems(lines)

\* The order whose lines are fetched.
SyncedOrder == CHOOSE o \in OrderIds : TRUE

\* The iteration of syncSalesOrders for an order whose detail was fetched:
\* transformSalesOrderData awaits fetchSalesOrderItems, then the order is
\* written with findOneAndUpdate.
SyncOrderLines(accepted) ==
    LET items == FetchSalesOrderItems(fnArg.listOk, fnArg.lines)
        upd   == TransformSalesOrderData(SyncedOrder,
                     [k \in 1..Len(items) |-> items[k].itemId], now)
    IN
    /\ fnName = "fetchSalesOrderItems"
    /\ ~fnDone
    /\ fnOut' = [items |-> items, saved |-> accepted]
    /\ fnDone' = TRUE
    /\ orders' = FindOneAndUpdateChecked(orders, upd.internalId, upd,
                                         NewSalesOrder(upd.internalId, now),
                                         now, accepted)
    /\ UNCHANGED <<fnName, fnArg>>
    /\ UNCHANGED <<store, now, lastWrite, repeated, writes>>
    /\ UNCHANGED <<clientVars, pageVars, runVars, fetchVars, moveVars, batchVars>>

DetailAnswered(l) == l.detailOk

\* C29: the items of a sales order are the lines whose detail answered, in the
\* upstream's order; a line whose item lookup failed, or whose detail links no
\* item, is among them with producer and region empty; the order is written
\* with these lines whenever the store accepts the write.
C29_LineItemsKeptWithoutLookup ==
    (fnName = "fetchSalesOrderItems" /\ fnDone /\ fnArg.listOk) =>
        LET kept == SelectSeq(fnArg.lines, DetailAnswered) IN
        /\ Len(fnOut.items) = Len(kept)
        /\ \A k \in 1..Len(kept) :
              /\ fnOut.items[k].line = kept[k].line
              /\ fnOut.items[k].itemId = kept[k].itemId
              /\ (~kept[k].link \/ ~kept[k].lookupOk) =>
                    (fnOut.items[k].producer = "" /\ fnOut.items[k].region = "")
              /\ (kept[k].link /\ kept[k].lookupOk) =>
                    /\ fnOut.items[k].producer = UpProducer(kept[k].line)
                    /\ fnOut.items[k].region = UpRegion(kept[k].line)
        /\ fnOut.saved =>
              \E o \in orders :
                  /\ o.internalId = SyncedOrder
                  /\ o.itemIds = [k \in 1..Len(kept) |-> kept[k].itemId]

\* An order of two lines: the item lookup of the first failed, the second
\* links no item; both are items of the written order, in order, without
\* producer and region.
C29_Witness ==
    /\ fnName = "fetchSalesOrderItems" /\ fnDone /\ fnArg.listOk
    /\ fnArg.lines = <<UpLine(1, TRUE, TRUE, FALSE), UpLine(2, TRUE, FALSE, TRUE)>>
    /\ fnOut.saved
    /\ Len(fnOut.items) = 2
    /\ fnOut.items[1].line = 1 /\ fnOut.items[1].producer = ""
    /\ fnOut.items[2].line = 2 /\ fnOut.items[2].region = ""
    /\ \E o \in orders : o.itemIds = <<101, 102>>

\* --- the customer's display name ---

\* tokens.join(sep)
RECURSIVE Join(_, _)
Join(tokens, sep) ==
    IF tokens = <<>> THEN <<>>
    ELSE IF Len(tokens) = 1 THEN Head(tokens)
    ELSE Head(tokens) \o <<sep>> \o Join(Tail(tokens), sep)

Includes(str, c) == \E i \in 1..Len(str) : str[i] = c

\* The name reduced to its first token.
CustomerCode(refName) ==
    IF Includes(refName, " ") THEN Head(Split(refName, " ")) ELSE refName

\* customer.customerName of transformSalesOrderData: entity.refName, and when
\* it includes a space, parts.slice(1).join(' ') of its split(' ').
CustomerName(refName) ==
    IF Includes(refName, " ")
    THEN LET parts == Split(refName, " ")
         IN IF Len(parts) >= 2 THEN Join(Tail(parts), " ") ELSE refName
    ELSE refName

\* The entity names drawn: "C123 John Smith", "Acme", "", "A  B", " John",
\* "John ", "12 Wine Co Ltd", " ".
Name_C123_John_Smith ==
    <<"C", "1", "2", "3", " ", "J", "o", "h", "n", " ", "S", "m", "i", "t", "h">>
Name_John_Smith == <<"J", "o", "h", "n", " ", "S", "m", "i", "t", "h">>
Name_Acme == <<"A", "c", "m", "e">>
EntityNames ==
    {Name_C123_John_Smith, Name_Acme, <<>>, <<"A", " ", " ", "B">>,
     <<" ", "J", "o", "h", "n">>, <<"J", "o", "h", "n", " ">>,
     <<"1", "2", " ", "W", "i", "n", "e", " ", "C", "o", " ", "L", "t", "d">>,
     <<" ">>}

ApplyCustomerName == Returns("customerName", CustomerName(fnArg))

\* C30: a customer name with a space loses its first space-delimited token:
\* the tokens of the result are the remaining tokens, in order, separated by
\* single spaces, which is the name after its first space; a name without a
\* space is unchanged.
C30_CustomerDisplayName ==
    (fnName = "customerName" /\ fnDone) =>
        IF Includes(fnArg, " ")
        THEN /\ Split(fnOut, " ") = Tail(Split(fnArg, " "))
             /\ fnOut = Drop(fnArg, Len(UpTo(fnArg, " ")) + 1)
        ELSE fnOut = fnArg

\* "C123 John Smith" became "John Smith".
C30_Witness ==
    /\ fnName = "customerName" /\ fnDone
    /\ fnArg = Name_C123_John_Smith
    /\ fnOut = Name_John_Smith

\* --- the specification of the helpers ---

FnInit ==
    /\ fnDone = FALSE
    /\ fnOut = NoValue
    /\ \/ fnName = "buildReport" /\ fnArg \in ReportArgs
       \/ fnName = "extractNumericValue" /\ fnArg \in NumericArgs
       \/ fnName = "parseNetSuiteDate" /\ fnArg \in SlashDateArgs
       \/ fnName = "parseDate" /\ fnArg \in IsoDateArgs
       \/ fnName = "fetchSalesOrderItems" /\ fnArg \in OrderLineArgs
       \/ fnName = "customerName" /\ fnArg \in EntityNames

NextFn ==
    \/ ApplyBuildReport
    \/ ApplyExtractNumericValue
    \/ ApplyParseNetSuiteDate
    \/ ApplyParseDate
    \/ \E accepted \in BOOLEAN : SyncOrderLines(accepted)
    \/ ApplyCustomerName


\* The orchestrator at rest, before a run and for the other specifications.
RunIdle ==
    /\ mode = "none"
    /\ pc = "idle"
    /\ cands = <<>>
    /\ listed = NoListing
    /\ idx = 0
    /\ processedCount = 0
    /\ savedCount = 0
    /\ skippedInactiveCount = 0
    /\ errors = <<>>
    /\ raised = {}
    /\ calls = NoCalls
    /\ report = NoReport
    /\ runs = 0
    /\ startStore = {}
    /\ last = NoIteration
    /\ exhausted = {}
    /\ logLines = 0


\* ------------------------------------------------------------------------
\* Awaited loops over a list of ids (SpecBatch)
\* ------------------------------------------------------------------------
\* batchGetItems, batchGetItemsWithPrice (service); the for-of loops of
\* syncInventory and syncAllInventory (inventory sync script).
BatchVariants == {"batchGetItems", "batchGetItemsWithPrice"}
LoopVariants == {"syncInventory", "syncAllInventory"}

\* The lists of ids drawn: none, one, several, one id twice.
IdLists == {<<>>, <<1>>, <<1, 2>>, <<1, 2, 3>>, <<1, 1, 2>>, <<1, 2, 3, 4>>}

\* batchSize of the call.
GetBatchSizes == {1, 2, 3}

\* How a position ended.
Settled == {"ok", "failed", "skipped"}

\* Mutant of Width: the loops start their records two at a time.
WidthTwo(variant, size) == 2

\* The number of records started together: batch.map(async ...) starts the
\* whole batch before Promise.all is awaited; the for-of loops await the
\* fetch and the write of a record inside the loop body.
Width(variant, size) ==
    IF variant \in LoopVariants THEN 1 ELSE size

\* Mutant of BatchOf: the slice is one short.
BatchOfShort(ids, i, width) ==
    {p \in 1..Len(ids) : i < p /\ p <= i + width - 1}

\* itemIds.slice(i, i + batchSize): the positions of the batch.
BatchOf(ids, i, width) ==
    {p \in 1..Len(ids) : i < p /\ p <= i + width}

\* The positions of a set, in ascending order.
RECURSIVE Ascending(_)
Ascending(ps) ==
    IF ps = {} THEN <<>>
    ELSE LET p == CHOOSE x \in ps : \A y \in ps : x <= y
         IN <<p>> \o Ascending(ps \ {p})

\* The positions whose fetches or write are awaited.
Awaited == {p \in DOMAIN bgStage : bgStage[p] \notin Settled \cup {"none"}}

BatchIdle ==
    /\ bgPc = "idle"
    /\ bgVariant = "none"
    /\ bgIds = <<>>
    /\ bgSize = 0
    /\ bgI = 0
    /\ bgStage = <<>>
    /\ bgStarted = <<>>
    /\ bgWrites = <<>>
    /\ bgResults = <<>>
    /\ bgErrors = <<>>

\* The function is called: const results = []; const errors = []; i = 0.
BatchCall(variant, ids, size) ==
    /\ bgPc = "idle"
    /\ bgVariant' = variant
    /\ bgIds' = ids
    /\ bgSize' = size
    /\ bgStage' = [p \in 1..Len(ids) |-> "none"]
    /\ bgPc' = IF ids = <<>> THEN "done" ELSE "launch"
    /\ UNCHANGED <<bgI, bgStarted, bgWrites, bgResults, bgErrors>>
    /\ UNCHANGED <<clientVars, pageVars, storeVars, runVars, fetchVars, moveVars, fnVars>>

\* The loop body up to its first await: the base fetch of every record of
\* the batch is issued, in the batch's order.
BatchLaunch ==
    LET batch == BatchOf(bgIds, bgI, Width(bgVariant, bgSize)) IN
    /\ bgPc = "launch"
    /\ bgStage' = [p \in DOMAIN bgStage |-> IF p \in batch THEN "base" ELSE bgStage[p]]
    /\ bgStarted' = bgStarted \o Ascending(batch)
    /\ bgPc' = "wait"
    /\ UNCHANGED <<bgVariant, bgIds, bgSize, bgI, bgWrites, bgResults, bgErrors>>
    /\ UNCHANGED <<clientVars, pageVars, storeVars, runVars, fetchVars, moveVars, fnVars>>

\* Where the record at a stage goes when its awaited call returns (ok) or
\* throws: getInventoryItemById rethrows; extractPriceAndCurrency catches and
\* returns the default price; the loops push an error for a null detail, the
\* sweep skips an inactive record, and the write is accepted or rejected.
StageAfter(variant, stage, ok, inactive) ==
    CASE stage = "base" /\ ~ok -> "failed"
      [] stage = "base" /\ ok ->
            IF variant = "batchGetItems" THEN "ok"
            ELSE IF variant = "batchGetItemsWithPrice" THEN "price"
            ELSE IF variant = "syncAllInventory" /\ inactive THEN "skipped"
            ELSE "upsert"
      [] stage = "price" -> "ok"
      [] stage = "upsert" -> IF ok THEN "ok" ELSE "failed"

\* An awaited call of the record at position p settles.
BatchItemStep(p, ok, inactive) ==
    LET after == StageAfter(bgVariant, bgStage[p], ok, inactive) IN
    /\ bgPc = "wait"
    /\ p \in Awaited
    /\ bgStage' = [bgStage EXCEPT ![p] = after]
    /\ bgWrites' = IF after = "upsert" THEN Append(bgWrites, p) ELSE bgWrites
    /\ UNCHANGED <<bgPc, bgVariant, bgIds, bgSize, bgI, bgStarted, bgResults, bgErrors>>
    /\ UNCHANGED <<clientVars, pageVars, storeVars, runVars, fetchVars, moveVars, fnVars>>

\* The elements of a sequence of positions that ended as `how`.
RECURSIVE Ended(_, _)
Ended(ps, how) ==
    IF ps = <<>> THEN <<>>
    ELSE (IF bgStage[Head(ps)] = how THEN <<Head(ps)>> ELSE <<>>) \o Ended(Tail(ps), how)

\* Promise.all(batchPromises) resolves (or the loop body ends): the results
\* and the errors of the batch are pushed in the batch's order, and the loop
\* goes to its next batch or returns.
BatchCollect ==
    LET width == Width(bgVariant, bgSize)
        batch == Ascending(BatchOf(bgIds, bgI, width))
    IN
    /\ bgPc = "wait"
    /\ Awaited = {}
    /\ bgResults' = bgResults \o Ended(batch, "ok")
    /\ bgErrors' = bgErrors \o Ended(batch, "failed")
    /\ bgI' = bgI + width
    /\ bgPc' = IF bgI + width < Len(bgIds) THEN "launch" ELSE "done"
    /\ UNCHANGED <<bgVariant, bgIds, bgSize, bgStage, bgStarted, bgWrites>>
    /\ UNCHANGED <<clientVars, pageVars, storeVars, runVars, fetchVars, moveVars, fnVars>>

NextBatch ==
    \/ \E variant \in BatchVariants \cup LoopVariants, ids \in IdLists,
          size \in GetBatchSizes : BatchCall(variant, ids, size)
    \/ BatchLaunch
    \/ \E p \in 1..4, ok \in BOOLEAN, inactive \in BOOLEAN : BatchItemStep(p, ok, inactive)
    \/ BatchCollect

\* The number of times p occurs in a sequence.
Occurrences(q, p) == Cardinality({i \in DOMAIN q : q[i] = p})

\* C39: batchGetItems and batchGetItemsWithPrice return results and errors
\* that hold every entry of the input exactly once between them, so that
\* |results| + |errors| is the number of ids, and for ids that are all
\* different each id is in exactly one of the two; no more than batchSize
\* fetches are awaited at a time, and the fetches of a batch are issued only
\* when every record of the batches before it has settled.
C39_BatchPartition ==
    /\ [](bgVariant \in BatchVariants /\ bgPc = "done" =>
            /\ Len(bgResults) + Len(bgErrors) = Len(bgIds)
            /\ \A p \in DOMAIN bgIds :
                  Occurrences(bgResults, p) + Occurrences(bgErrors, p) = 1
            /\ \A p \in DOMAIN bgIds :
                  Occurrences(bgResults, p) = 1 <=> bgStage[p] = "ok")
    /\ [](bgVariant \in BatchVariants => Cardinality(Awaited) <= bgSize)
    /\ [][(bgVariant' \in BatchVariants /\ bgStarted' # bgStarted) =>
            /\ Len(bgStarted') <= Len(bgStarted) + bgSize
            /\ \A i \in DOMAIN bgStarted : bgStage[bgStarted[i]] \in Settled
            /\ bgStarted' = [i \in 1..Len(bgStarted') |-> i]]_vars

\* batchGetItemsWithPrice over four ids in batches of three has returned:
\* fetches of the first batch both succeeded and failed, and the fourth id
\* was fetched alone after them.
C39_Witness ==
    /\ bgVariant = "batchGetItemsWithPrice" /\ bgPc = "done"
    /\ Len(bgIds) = 4 /\ bgSize = 3
    /\ Len(bgResults) = 3 /\ bgErrors = <<2>>
    /\ bgStarted = <<1, 2, 3, 4>>

\* C32: the per-record loops take their candidates one at a time and in
\* order: the base fetch of a candidate is issued only when the fetch and the
\* write attempt of every candidate before it have finished, at most one
\* record is in progress at any time, and the writes of a run are issued in
\* candidate order.
C32_OneAtATime ==
    /\ [][(bgVariant' \in LoopVariants /\ bgStarted' # bgStarted) =>
            /\ bgStarted' = Append(bgStarted, Len(bgStarted) + 1)
            /\ \A p \in 1..Len(bgStarted) : bgStage[p] \in Settled]_vars
    /\ [](bgVariant \in LoopVariants =>
            /\ Cardinality(Awaited) <= 1
            /\ \A i \in DOMAIN bgWrites, j \in DOMAIN bgWrites :
                  i < j => bgWrites[i] < bgWrites[j]
            /\ \A i \in DOMAIN bgWrites : \A p \in 1..(bgWrites[i] - 1) :
                  bgStage[p] \in Settled)

\* The sweep over three candidates has returned: the second was skipped as
\* inactive, the first and the third were written, in that order.
C32_Witness ==
    /\ bgVariant = "syncAllInventory" /\ bgPc = "done"
    /\ Len(bgIds) = 3
    /\ bgStarted = <<1, 2, 3>>
    /\ bgStage[2] = "skipped"
    /\ bgWrites = <<1, 3>>


Init == ClientInit /\ PageIdle /\ StoreInit /\ RunIdle /\ FetchIdle /\ MoveIdle /\ FnIdle /\ BatchIdle

Next ==
    \/ \E c \in Callers, l \in Limiters : NetsuiteRequest(c, l)
    \/ \E l \in Limiters : LimiterDispatch(l)
    \/ \E S \in SUBSET Callers : MakeRequestWithRetryBatch(S)
    \/ \E S \in SUBSET Callers : ServiceAxiosBatch(S)
    \/ \E c \in Callers : RespondOk(c)
    \/ \E c \in Callers, s \in Statuses : RespondError(c, s)
    \/ \E c \in Callers : BackoffElapsed(c)

Spec == Init /\ [][Next]_vars

InitPage == ClientInit /\ PageInit /\ StoreInit /\ RunIdle /\ FetchIdle /\ MoveIdle /\ FnIdle /\ BatchIdle

SpecPage == InitPage /\ [][PageNext]_vars

\* The paginator with any pattern of failures, its loop always resumed.
SpecPageFair == InitPage /\ [][PageNextAnyFailure]_vars /\ WF_vars(PageNextAnyFailure)

InitStore == ClientInit /\ PageIdle /\ StoreInit /\ RunIdle /\ FetchIdle /\ MoveIdle /\ FnIdle /\ BatchIdle

SpecStore == InitStore /\ [][NextStore]_vars

InitSync == ClientInit /\ PageIdle /\ StoreInit /\ RunIdle /\ FetchIdle /\ MoveIdle /\ FnIdle /\ BatchIdle

SpecSync == InitSync /\ [][NextSync]_vars

\* The orchestrator with its continuations always resumed.
SpecSyncFair == InitSync /\ [][NextSync]_vars /\ WF_vars(RunStep)

InitPrice == ClientInit /\ PageIdle /\ StoreInit /\ RunIdle /\ PriceInit /\ MoveIdle /\ FnIdle /\ BatchIdle

SpecPrice == InitPrice /\ [][NextPrice]_vars

InitFetch == ClientInit /\ PageIdle /\ StoreInit /\ RunIdle /\ FetchInit /\ MoveIdle /\ FnIdle /\ BatchIdle

SpecFetch == InitFetch /\ [][NextFetch]_vars

InitMove == ClientInit /\ PageIdle /\ MoveInit /\ RunIdle /\ FetchIdle /\ FnIdle /\ BatchIdle

SpecMove == InitMove /\ [][NextMove]_vars

\* The movement pass, its handler always resumed.
SpecMoveFair == InitMove /\ [][NextMove]_vars /\ WF_vars(NextMove)

InitBatch == ClientInit /\ PageIdle /\ StoreInit /\ RunIdle /\ FetchIdle /\ MoveIdle /\ FnIdle /\ BatchIdle

SpecBatch == InitBatch /\ [][NextBatch]_vars

InitFn == ClientInit /\ PageIdle /\ StoreInit /\ RunIdle /\ FetchIdle /\ MoveIdle /\ FnInit /\ BatchIdle

SpecFn == InitFn /\ [][NextFn]_vars

=============================================================================
